---- MODULE Spec2Model ----
(***************************************************************************)
(* A model of src/mms/mms_sdc_api_client.py: the MMS_SDC_API_CLIENT        *)
(* selector (its attribute interception and property setters), Query(),    *)
(* the name/path conversions, Search(), DownloadFile() and Download() with *)
(* its pool of concurrent download tasks.                                  *)
(*                                                                         *)
(* Python values are encoded as tagged tuples so that values of different  *)
(* Python types can meet in one field:                                     *)
(*     None                  <<"None">>                                    *)
(*     a str s               <<"str", s>>                                  *)
(*     a list l of str       <<"list", l>>                                 *)
(*     a datetime            <<"datetime", <<Y, M, D, h, m, s>>>>          *)
(* bool stays BOOLEAN.  Strings are TLA+ strings, read character by        *)
(* character with Len, SubSeq and \o.                                      *)
(***************************************************************************)
EXTENDS Integers, Sequences, FiniteSets, TLC

VARIABLES
    self,          \* the MMS_SDC_API_CLIENT object: one field per attribute
    exc,           \* the exception the last finished call raised to its caller
    ret,           \* the value the last finished call returned
    call,          \* the last call made: <<operation, argument...>>
    ncalls,        \* how many calls have been made on the object
    entry,         \* the object as it was when the last call was made
    pc,            \* where the running call stands ("idle": none is running)
    disk,          \* the paths that exist as files on the local disk
    requests,      \* the requests the last call has sent to the SDC
    url,           \* Download: its local url
    local_files,   \* Search, Download: the local list
    remote_files,  \* Search, Download: the remote list
    listed,        \* Search: the list FileNames() returned
    site,          \* Download: its local site (the site kept aside)
    state,         \* Download: its local state (the attributes kept aside)
    file_info,     \* Download: what FileInfo() returned
    newfiles,      \* Download: the tasks of the pool, one per file
    r,             \* Get, check_response: the response in hand (its status code)
    nAttempts,     \* check_response: its local nAttempts
    logins,        \* the times the last call has asked for the credentials
    posts,         \* the times the last call has posted a request
    dates,         \* Local_FileNames: its local dates
    pwd,           \* Local_FileNames: its local pwd
    result,        \* Local_FileNames: its local result
    searched,      \* Local_FileNames: how many of its paths the loop has taken
    cwd            \* the working directory of the process

vars == <<self, exc, ret, call, ncalls, entry, pc, disk, requests, url,
          local_files, remote_files, listed, site, state, file_info, newfiles,
          r, nAttempts, logins, posts, dates, pwd, result, searched, cwd>>

\* The locals of Get and check_response, and the counts of their steps.
getvars == <<r, nAttempts, logins, posts>>

\* The locals of Local_FileNames.
searchvars == <<dates, pwd, result, searched>>

\* The locals of Search and Download.
locals == <<url, local_files, remote_files, listed, site, state, file_info, newfiles>>

----------------------------------------------------------------------------
(* Python values *)

None == <<"None">>
Str(s) == <<"str", s>>
List(l) == <<"list", l>>
DateTime(t) == <<"datetime", t>>

IsStr(v) == v[1] = "str"
IsList(v) == v[1] = "list"
IsDateTime(v) == v[1] = "datetime"

NoExc == "none"

----------------------------------------------------------------------------
(* Strings *)

Char(s, i) == SubSeq(s, i, i)

Min(a, b) == IF a <= b THEN a ELSE b

\* Python's s[lo:hi] for 0 <= lo <= hi, clipped to the length of s.
Slice(s, lo, hi) == SubSeq(s, lo + 1, Min(hi, Len(s)))

Digits == "0123456789"

IsDigit(c) == \E i \in 1..10 : Char(Digits, i) = c

DigitVal(c) == (CHOOSE i \in 1..10 : Char(Digits, i) = c) - 1

AllDigits(s) == \A i \in 1..Len(s) : IsDigit(Char(s, i))

RECURSIVE ToInt(_)
ToInt(s) == IF Len(s) = 0 THEN 0
            ELSE 10 * ToInt(SubSeq(s, 1, Len(s) - 1)) + DigitVal(Char(s, Len(s)))

\* The decimal digits of n, zero-padded to w characters (%Y, %m, %d of strftime).
RECURSIVE Pad(_, _)
Pad(n, w) == IF w = 0 THEN ""
             ELSE Pad(n \div 10, w - 1) \o Char(Digits, (n % 10) + 1)

RECURSIVE Join(_, _)
\* sep.join(l)
Join(sep, l) == IF Len(l) = 0 THEN ""
                ELSE IF Len(l) = 1 THEN l[1]
                ELSE l[1] \o sep \o Join(sep, Tail(l))

----------------------------------------------------------------------------
(* datetime: the calendar, strptime, strftime, + timedelta(1) *)

IsLeap(y) == (y % 4 = 0 /\ y % 100 # 0) \/ y % 400 = 0

DaysInMonth(y, m) ==
    IF m = 2 THEN (IF IsLeap(y) THEN 29 ELSE 28)
    ELSE IF m \in {4, 6, 9, 11} THEN 30 ELSE 31

ValidDateTime(t) ==
    /\ t[1] >= 1
    /\ t[2] \in 1..12
    /\ t[3] \in 1..DaysInMonth(t[1], t[2])
    /\ t[4] \in 0..23
    /\ t[5] \in 0..59
    /\ t[6] \in 0..59

\* datetime + timedelta(1): the same time of day on the next calendar day.
AddDay(t) ==
    IF t[3] < DaysInMonth(t[1], t[2]) THEN <<t[1], t[2], t[3] + 1, t[4], t[5], t[6]>>
    ELSE IF t[2] < 12 THEN <<t[1], t[2] + 1, 1, t[4], t[5], t[6]>>
    ELSE <<t[1] + 1, 1, 1, t[4], t[5], t[6]>>

\* datetime.date() and datetime.time()
DateOf(t) == <<t[1], t[2], t[3]>>
TimeOf(t) == <<t[4], t[5], t[6]>>

\* datetime.strftime('%Y-%m-%d')
StrfDate(t) == Pad(t[1], 4) \o "-" \o Pad(t[2], 2) \o "-" \o Pad(t[3], 2)

\* The text matches %Y-%m-%d written with zero-padded fields.
MatchesDate(s) ==
    /\ Len(s) = 10
    /\ AllDigits(SubSeq(s, 1, 4)) /\ Char(s, 5) = "-"
    /\ AllDigits(SubSeq(s, 6, 7)) /\ Char(s, 8) = "-"
    /\ AllDigits(SubSeq(s, 9, 10))

\* The text matches %Y-%m-%dT%H:%M:%S written with zero-padded fields.
MatchesDateTime(s) ==
    /\ Len(s) = 19
    /\ MatchesDate(SubSeq(s, 1, 10)) /\ Char(s, 11) = "T"
    /\ AllDigits(SubSeq(s, 12, 13)) /\ Char(s, 14) = ":"
    /\ AllDigits(SubSeq(s, 15, 16)) /\ Char(s, 17) = ":"
    /\ AllDigits(SubSeq(s, 18, 19))

FieldsOfDate(s) ==
    <<ToInt(SubSeq(s, 1, 4)), ToInt(SubSeq(s, 6, 7)), ToInt(SubSeq(s, 9, 10)), 0, 0, 0>>

FieldsOfDateTime(s) ==
    <<ToInt(SubSeq(s, 1, 4)), ToInt(SubSeq(s, 6, 7)), ToInt(SubSeq(s, 9, 10)),
      ToInt(SubSeq(s, 12, 13)), ToInt(SubSeq(s, 15, 16)), ToInt(SubSeq(s, 18, 19))>>

\* datetime(...): the fields make a datetime, or None where strptime raises.
Valid(t) == IF ValidDateTime(t) THEN DateTime(t) ELSE None

\* datetime.strptime(s, '%Y-%m-%dT%H:%M:%S') and datetime.strptime(s, '%Y-%m-%d'),
\* None standing for the ValueError.
strptime_datetime(s) == IF MatchesDateTime(s) THEN Valid(FieldsOfDateTime(s)) ELSE None
strptime_date(s) == IF MatchesDate(s) THEN Valid(FieldsOfDate(s)) ELSE None

\* try: a / except: b
TryElse(a, b) == IF a # None THEN a ELSE b

\* The two nested try/except of the start_date and end_date setters: a str is
\* parsed as value[0:19] in %Y-%m-%dT%H:%M:%S, else as %Y-%m-%d; when both
\* fail the ValueError is built but not raised and the str itself is kept.
\* Any other value (None, a datetime) is kept as it is.
date_setter(value) ==
    IF ~IsStr(value) THEN value
    ELSE TryElse(strptime_datetime(Slice(value[2], 0, 19)),
                 TryElse(strptime_date(value[2]), value))

\* datetime.isoformat() of a datetime of whole seconds
IsoFormat(t) ==
    StrfDate(t) \o "T" \o Pad(t[4], 2) \o ":" \o Pad(t[5], 2) \o ":" \o Pad(t[6], 2)

\* The getters of start_date and end_date: a datetime is given in ISO format,
\* anything else as it is stored.
date_getter(value) == IF IsDateTime(value) THEN Str(IsoFormat(value[2])) ELSE value

----------------------------------------------------------------------------
(* The selector: the site property and __setattr__ *)

ValueError == "ValueError"
TypeError == "TypeError"

\* The site property's setter: the value stored in _site, or ValueError.
site_setter(value) ==
    IF value \in {Str("team"), Str("team_site"), Str("sitl"), Str("private")} THEN "sitl"
    ELSE IF value \in {Str("public"), Str("public_site")} THEN "public"
    ELSE ValueError

\* What an assignment leaves: the object and the exception it raised.
Outcome(s, e) == [self |-> s, exc |-> e]

\* What a method call gives: the value it returned and the exception it raised.
Result(v, e) == [val |-> v, exc |-> e]

\* object.__setattr__: site, start_date and end_date are properties, whose
\* setters run; every other name is stored in the object as given.
super_setattr(s, name, value) ==
    IF name = "site" THEN
        IF site_setter(value) = ValueError THEN Outcome(s, ValueError)
        ELSE Outcome([s EXCEPT !.site = site_setter(value)], NoExc)
    ELSE IF name \in {"start_date", "end_date"} THEN
        Outcome([s EXCEPT ![name] = date_setter(value)], NoExc)
    ELSE Outcome([s EXCEPT ![name] = value], NoExc)

\* __setattr__ for name = 'level' as it would be if 'l3' were not public
setattr_level_l2(s, value) ==
    super_setattr(IF value \in {None, Str("l2")}
                      THEN super_setattr(s, "site", Str("public")).self
                      ELSE super_setattr(s, "site", Str("private")).self,
                  "level", value)

\* __setattr__ for name = 'level': site follows the level, then level is stored.
setattr_level(s, value) ==
    LET sited == IF value \in {None, Str("l2"), Str("l3")}
                     THEN super_setattr(s, "site", Str("public")).self
                     ELSE super_setattr(s, "site", Str("private")).self
    IN super_setattr(sited, "level", value)

\* The attributes a list of files stands in for, in the order of lines 116-121.
Cleared == <<"sc", "instr", "mode", "level", "optdesc", "version">>

\* ClearAll as it would be if it stopped at the first name
ClearFirst(s, names) == super_setattr(s, Head(names), None).self

\* Lines 116-121: each name in turn is assigned None (level through its branch).
RECURSIVE ClearAll(_, _)
ClearAll(s, names) ==
    IF names = <<>> THEN s
    ELSE ClearAll(IF Head(names) = "level" THEN setattr_level(s, None).self
                  ELSE super_setattr(s, Head(names), None).self,
                  Tail(names))

\* __setattr__ for name = 'files' as it would be if it only stored the value
setattr_files_storing(s, value) == super_setattr(s, "files", value)

\* __setattr__ for name = 'files': a value that is not None resets the six
\* attributes, then files is stored.
setattr_files(s, value) ==
    super_setattr(IF value # None THEN ClearAll(s, Cleared) ELSE s, "files", value)

DataTypes == {Str("ancillary"), Str("hk"), Str("science")}

\* Line 113: the message of the ValueError is built by str + value, which
\* raises TypeError in its place when the value is not a str.
InvalidDataType(value) == IF IsStr(value) THEN ValueError ELSE TypeError

\* __setattr__ for name = 'data_type': a value that is not one of the three
\* raises, any of the three is stored.
setattr_data_type(s, value) ==
    IF value \notin DataTypes THEN Outcome(s, InvalidDataType(value))
    ELSE super_setattr(s, "data_type", value)

\* __setattr__ for name = 'anc_product': data_type is assigned 'ancillary',
\* whatever the value, then anc_product is stored.
setattr_anc_product(s, value) ==
    super_setattr(setattr_data_type(s, Str("ancillary")).self, "anc_product", value)

\* MMS_SDC_API_CLIENT.__setattr__
setattr(s, name, value) ==
    IF name = "anc_product" THEN setattr_anc_product(s, value)
    ELSE IF name = "data_type" THEN setattr_data_type(s, value)
    ELSE IF name = "files" THEN setattr_files(s, value)
    ELSE IF name = "level" THEN setattr_level(s, value)
    ELSE super_setattr(s, name, value)

\* The object before the body of __init__ has assigned anything; __init__
\* assigns every attribute before anything reads one.
NewObject ==
    [sc |-> None, instr |-> None, mode |-> None, level |-> None,
     optdesc |-> None, version |-> None, files |-> None, site |-> "unset",
     anc_product |-> None, data_type |-> None, offline |-> FALSE,
     start_date |-> None, end_date |-> None,
     data_root |-> None, info_type |-> None]

\* One assignment of __init__, skipped once an earlier one has raised.
Then(o, name, value) == IF o.exc # NoExc THEN o ELSE setattr(o.self, name, value)

DefaultRoot == "~/data/mms"

\* InitOrder as it would be if site were assigned after level
InitOrderLevelFirst ==
    <<"anc_product", "data_type", "end_date", "instr", "level", "site", "mode",
      "offline", "optdesc", "sc", "start_date", "version", "files", "data_root">>

\* The attributes in the order __init__ assigns them.
InitOrder ==
    <<"site", "anc_product", "data_type", "end_date", "instr", "level", "mode",
      "offline", "optdesc", "sc", "start_date", "version", "files", "data_root">>

\* The assignments of names, in order, from the arguments a.
RECURSIVE AssignAll(_, _, _)
AssignAll(o, names, a) ==
    IF names = <<>> THEN o
    ELSE AssignAll(Then(o, Head(names), a[Head(names)]), Tail(names), a)

\* MMS_SDC_API_CLIENT.__init__: site first, files last, then the download
\* directory (its default when none is given) and the info type.
init(a) ==
    Then(AssignAll(Outcome(NewObject, NoExc), InitOrder,
                   [a EXCEPT !.data_root = IF @ = None THEN Str(DefaultRoot) ELSE @]),
         "info_type", Str("download"))

\* The constructor's defaults.
Defaults ==
    [sc |-> None, instr |-> None, mode |-> None, level |-> None,
     anc_product |-> None, data_type |-> Str("science"), data_root |-> None,
     end_date |-> None, files |-> None, offline |-> FALSE, optdesc |-> None,
     site |-> Str("public"), start_date |-> None, version |-> None]

----------------------------------------------------------------------------
(* Query() *)

AttributeError == "AttributeError"

\* value if isinstance(value, str) else ','.join(value)
StrOrJoin(value) == IF IsStr(value) THEN value[2] ELSE Join(",", value[2])

\* Lines 512-516: the end date of the query.  strftime, date() and time()
\* are methods of datetime: on None or on a str they raise AttributeError.
QueryEndDate(s) ==
    IF s.end_date = None THEN Result(None, NoExc)
    ELSE IF ~IsDateTime(s.end_date) THEN Result(None, AttributeError)
    ELSE IF ~IsDateTime(s.start_date) THEN Result(None, AttributeError)
    ELSE IF \/ DateOf(s.start_date[2]) = DateOf(s.end_date[2])
            \/ TimeOf(s.end_date[2]) # <<0, 0, 0>>
        THEN Result(StrfDate(AddDay(s.end_date[2])), NoExc)
    ELSE Result(StrfDate(s.end_date[2]), NoExc)

\* The keys of the query and the attribute each is built from.
QueryKeys ==
    [sc_id |-> "sc", instrument_id |-> "instr", data_rate_mode |-> "mode",
     data_level |-> "level", descriptor |-> "optdesc", version |-> "version",
     files |-> "files", start_date |-> "start_date", end_date |-> "end_date",
     product |-> "anc_product"]

\* MMS_SDC_API_CLIENT.Query: the dict of the query (a function on the keys
\* that are present), or the exception.
Query(s) ==
    LET e == QueryEndDate(s)
        keys == {k \in DOMAIN QueryKeys : s[QueryKeys[k]] # None}
    IN IF e.exc # NoExc THEN Result(None, e.exc)
       ELSE IF s.start_date # None /\ ~IsDateTime(s.start_date)
           THEN Result(None, AttributeError)
       ELSE Result([k \in keys |->
                        IF k = "start_date" THEN StrfDate(s.start_date[2])
                        ELSE IF k = "end_date" THEN e.val
                        ELSE StrOrJoin(s[QueryKeys[k]])], NoExc)

----------------------------------------------------------------------------
(* File names and paths *)

\* str.split(sep) for a separator of one character: the texts between the
\* places of sep in s.
SplitText(s, sep) ==
    LET at == {i \in 1..Len(s) : Char(s, i) = sep}
        place(k) == IF k = 0 THEN 0
                    ELSE IF k > Cardinality(at) THEN Len(s) + 1
                    ELSE CHOOSE p \in at : Cardinality({q \in at : q < p}) = k - 1
    IN [k \in 1..(Cardinality(at) + 1) |-> SubSeq(s, place(k - 1) + 1, place(k) - 1)]

----------------------------------------------------------------------------
(* The files of the runs modelled *)

\* The most files one listing of the catalog names.
MaxFiles == 2

\* The most chunks one download streams.
MaxChunks == 1

DataRoot == "/data"

\* The burst file of hour i of 2020-01-05, inside the interval of the runs.
FileName(i) == "mms1_fgm_brst_l2_dfg_20200105" \o Pad(i, 2) \o "0000_v1.0.0.cdf"

\* The burst file of 01:00 on 2020-01-07, the last day of the interval of the
\* runs, past its end at 00:00.
EndFileName == "mms1_fgm_brst_l2_dfg_20200107010000_v1.0.0.cdf"

\* The remote name under which the catalog lists a file.
RemoteName(name) == "mms/data/mms1/fgm/brst/l2/dfg/2020/01/" \o Slice(name, 27, 29) \o "/" \o name

\* The listings the catalog may answer with: at most MaxFiles of its files, in
\* either order of time.
Listings ==
    LET all == [i \in 1..(MaxFiles + 1) |->
                   IF i <= MaxFiles THEN RemoteName(FileName(i)) ELSE RemoteName(EndFileName)]
        up(S) == SelectSeq(all, LAMBDA n : n \in S)
        down(S) == [i \in 1..Len(up(S)) |-> up(S)[Len(up(S)) + 1 - i]]
        names == {all[i] : i \in 1..(MaxFiles + 1)}
    IN UNION {{up(S), down(S)} : S \in {T \in SUBSET names : Cardinality(T) <= MaxFiles}}

\* The texts of the runs that get split, each with its separator: the texts
\* of the listings, the remote names, the local paths and the file names.
SplitTexts ==
    LET names == {FileName(i) : i \in 1..MaxFiles} \cup {EndFileName}
        path(n) == DataRoot \o "/mms1/fgm/brst/l2/dfg/" \o Slice(n, 21, 25) \o "/"
                       \o Slice(n, 25, 27) \o "/" \o Slice(n, 27, 29) \o "/" \o n
    IN {<<Join(",", l), ",">> : l \in Listings}
           \cup {<<RemoteName(n), "/">> : n \in names}
           \cup {<<path(n), "/">> : n \in names}
           \cup {<<n, "_">> : n \in names}

\* Their splits, worked out once.
SplitMemo == [x \in SplitTexts |-> SplitText(x[1], x[2])]

\* str.split(sep)
Split(s, sep) ==
    IF <<s, sep>> \in SplitTexts THEN SplitMemo[<<s, sep>>] ELSE SplitText(s, sep)

\* sub in s
Contains(s, sub) ==
    \E i \in 1..(Len(s) - Len(sub) + 1) : SubSeq(s, i, i + Len(sub) - 1) = sub

Upper == "ABCDEFGHIJKLMNOPQRSTUVWXYZ"
Lowercase == "abcdefghijklmnopqrstuvwxyz"

LowerChar(c) ==
    IF \E i \in 1..26 : Char(Upper, i) = c
        THEN Char(Lowercase, CHOOSE i \in 1..26 : Char(Upper, i) = c)
        ELSE c

RECURSIVE Lower(_)
\* str.lower(): character by character (the two halves of s in turn)
Lower(s) ==
    IF Len(s) = 0 THEN ""
    ELSE IF Len(s) = 1 THEN LowerChar(s)
    ELSE Lower(SubSeq(s, 1, Len(s) \div 2)) \o Lower(SubSeq(s, Len(s) \div 2 + 1, Len(s)))

\* One step of posixpath.join: b appended to path a.
JoinStep(a, b) ==
    IF Len(b) > 0 /\ Char(b, 1) = "/" THEN b
    ELSE IF Len(a) = 0 \/ Char(a, Len(a)) = "/" THEN a \o b
    ELSE a \o "/" \o b

RECURSIVE PathJoin(_, _)
\* os.path.join(a, *p)
PathJoin(a, p) == IF Len(p) = 0 THEN a ELSE PathJoin(JoinStep(a, Head(p)), Tail(p))

\* parts[0:-2], parts[-2] and parts[-1]
AllButLastTwo(parts) == SubSeq(parts, 1, Len(parts) - 2)
SecondToLast(parts) == parts[Len(parts) - 1]
Last(parts) == parts[Len(parts)]

\* os.path.basename
Basename(path) == Last(Split(path, "/"))

\* os.path.dirname
Dirname(path) == SubSeq(path, 1, Len(path) - Len(Basename(path)) - 1)

\* DateDirs as it would be if the length of the time tag decided on the day
DateDirsByTag(mode, tag) ==
    IF Len(tag) > 8 THEN <<Slice(tag, 0, 4), Slice(tag, 4, 6), Slice(tag, 6, 8)>>
    ELSE <<Slice(tag, 0, 4), Slice(tag, 4, 6)>>

\* Lines 420-432: the directories of the time tag, down to the day for burst
\* files and to the month for the others.
DateDirs(mode, tag) ==
    IF mode = "brst" THEN <<Slice(tag, 0, 4), Slice(tag, 4, 6), Slice(tag, 6, 8)>>
    ELSE <<Slice(tag, 0, 4), Slice(tag, 4, 6)>>

\* Lines 420-434: the path built from the fields of the name.
PathOfParts(root, parts, filename) ==
    PathJoin(root, AllButLastTwo(parts) \o DateDirs(parts[3], SecondToLast(parts))
                       \o <<filename>>)

\* MMS_SDC_API_CLIENT.name2path
name2path(s, filename) == PathOfParts(s.data_root[2], Split(filename, "_"), filename)

\* MMS_SDC_API_CLIENT.ancillaryname2path
ancillaryname2path(s, filename) ==
    PathJoin(Lower(PathJoin(s.data_root[2],
                            <<"ancillary">> \o AllButLastTwo(Split(filename, "_")))),
             <<filename>>)

\* file.split('/')[2:]
FromThird(c) == SubSeq(c, 3, Len(c))

\* MMS_SDC_API_CLIENT.remote2localnames, for a list of remote names
remote2localnames(s, remote_names) ==
    [i \in 1..Len(remote_names) |->
        PathJoin(s.data_root[2], FromThird(Split(remote_names[i], "/")))]

\* A tuple of Python
Tuple(l) == <<"tuple", l>>

\* InsertOptdesc as it would be if the empty string went to the end
InsertOptdescLast(parts) ==
    IF Len(parts) = 6 THEN parts \o <<"">> ELSE parts

\* Lines 496-497: parts.insert(-2, '') on a list of 6 puts the empty string
\* before the second-to-last field.
InsertOptdesc(parts) ==
    IF Len(parts) = 6 THEN SubSeq(parts, 1, 4) \o <<"">> \o SubSeq(parts, 5, 6)
    ELSE parts

\* Line 500: parts[-1] = parts[-1][0:-4]
StripExtension(parts) ==
    [parts EXCEPT ![Len(parts)] = SubSeq(@, 1, Len(@) - 4)]

\* MMS_SDC_API_CLIENT.ParseFileNames: it raises nothing, whatever the number
\* of fields (str.split gives at least one).
ParseFileNames(filename) ==
    Result(Tuple(StripExtension(InsertOptdesc(Split(Basename(filename), "_")))), NoExc)

----------------------------------------------------------------------------
(* The collaborators of mms_utils, which the repository keeps outside this  *)
(* file: modelled from their contracts.                                     *)

\* a < b and a <= b for two datetimes
DtLess(a, b) ==
    \E i \in 1..6 : a[i] < b[i] /\ \A j \in 1..(i - 1) : a[j] = b[j]
DtLE(a, b) == a = b \/ DtLess(a, b)

\* The number written at tag[lo:hi], 0 where the tag is too short to have it.
TagField(tag, lo, hi) == IF Len(tag) >= hi THEN ToInt(Slice(tag, lo, hi)) ELSE 0

\* The time a tag YYYYMMDD or YYYYMMDDhhmmss writes.
TimeOfTag(tag) ==
    [i \in 1..6 |-> TagField(tag, <<0, 4, 6, 8, 10, 12>>[i], <<4, 6, 8, 10, 12, 14>>[i])]

\* The time embedded in a file name or remote name: that of its
\* second-to-last field.
TimeTag(name) == TimeOfTag(SecondToLast(Split(Basename(name), "_")))

\* start <= t < end, an unset end of the interval being open
Within(t, start, end) ==
    /\ start = None \/ DtLE(start[2], t)
    /\ end = None \/ DtLess(t, end[2])

InInterval(name, start, end) == Within(TimeTag(name), start, end)

\* An end of the interval as the selector gives it: None, or a date written
\* in one of the two formats of the selector.
BoundOf(v) ==
    IF v = None THEN None
    ELSE TryElse(strptime_datetime(Slice(v[2], 0, 19)), strptime_date(v[2]))

\* The names whose time lies between two bounds, in their order.
NamesWithin(names, start, end) ==
    SelectSeq(names, LAMBDA n : InInterval(n, start, end))

\* mms_utils.filter_time: the names within [start, end), in their order.
filter_time(names, start, end) == NamesWithin(names, BoundOf(start), BoundOf(end))

\* datetime.strftime('%Y%m%d')
StrfCompact(t) == Pad(t[1], 4) \o Pad(t[2], 2) \o Pad(t[3], 2)

\* A field of a file name fits an attribute of the selector: None fits all.
FieldFits(attr, field) == attr = None \/ (IsStr(attr) /\ attr[2] = field)

\* The fields of a file name fit the selector and its time tag is of the day.
PartsFit(s, date, parts) ==
    /\ Len(parts) \in {6, 7}
    /\ Slice(SecondToLast(parts), 0, 8) = date
    /\ FieldFits(s.sc, parts[1]) /\ FieldFits(s.instr, parts[2])
    /\ FieldFits(s.mode, parts[3]) /\ FieldFits(s.level, parts[4])
    /\ Len(parts) = 7 => FieldFits(s.optdesc, parts[5])

\* The file of this name lies at path, where the layout puts it, and fits.
NameFits(s, date, path, name) ==
    /\ path = name2path(s, name)
    /\ PartsFit(s, date, Split(name, "_"))

\* mms_utils.construct_path followed by glob: the file at path is found by the
\* search pattern of the day `date` when it lies where the layout puts it,
\* its fields fit the selector and its time tag is of that day.
PatternFinds(s, date, path) == NameFits(s, date, path, Basename(path))

\* An attribute as construct_path writes it in a path: a pattern that fits
\* all where it is not one value.
AttrOrAny(attr) == IF IsStr(attr) THEN attr[2] ELSE "*"

\* mms_utils.construct_path followed by os.path.dirname: the directory in
\* which the files of the day `date` are looked for, that of a file of the
\* selector's attributes with a time tag of that day.
DayDir(s, date) ==
    Dirname(name2path(s, Join("_", <<AttrOrAny(s.sc), AttrOrAny(s.instr),
                                     AttrOrAny(s.mode), AttrOrAny(s.level),
                                     AttrOrAny(s.optdesc), date \o "000000",
                                     "v0.0.0.cdf">>)))

\* os.chdir(dir) finds the directory: a directory is there when a file of the
\* disk lies in it.
DirExists(files, dir) == \E p \in files : Dirname(p) = dir

RECURSIVE SetToSeq(_)
\* The elements of a set in the order a directory listing gives them.
SetToSeq(S) == IF S = {} THEN <<>>
               ELSE LET x == CHOOSE y \in S : TRUE IN <<x>> \o SetToSeq(S \ {x})

----------------------------------------------------------------------------
(* Local_FileNames() *)

MissionStart == <<2015, 9, 1, 0, 0, 0>>

\* os.getcwd() of the runs modelled, before any call
WorkDir == "/home/user"

\* datetime.today() of the runs modelled
Today == <<2020, 1, 8, 9, 30, 0>>

RECURSIVE DatesBetween(_, _)
\* Lines 328-332: one date per step of a day while start_date <= end_date.
DatesBetween(start_date, end_date) ==
    IF DtLE(start_date, end_date)
        THEN <<StrfCompact(start_date)>> \o DatesBetween(AddDay(start_date), end_date)
        ELSE <<>>

\* Lines 352-353: the files the pattern of one day finds.
FoundOn(s, date, files) == SetToSeq({p \in files : PatternFinds(s, date, p)})

RECURSIVE SearchPaths(_, _, _)
\* Lines 341-355: the files found day by day, appended to the result.
SearchPaths(s, days, files) ==
    IF Len(days) = 0 THEN <<>>
    ELSE FoundOn(s, Head(days), files) \o SearchPaths(s, Tail(days), files)

\* Lines 320-332: the dates of the search, from the start date (the start of
\* the mission when unset) to the end date (today when unset).
DatesOf(s) ==
    LET start_date == IF s.start_date = None THEN MissionStart ELSE s.start_date[2]
        end_date == IF s.end_date = None THEN Today ELSE s.end_date[2]
    IN DatesBetween(start_date, end_date)

\* MMS_SDC_API_CLIENT.Local_FileNames, on a disk holding `files`
Local_FileNames(s, files) == SearchPaths(s, DatesOf(s), files)

----------------------------------------------------------------------------
(* The runs modelled: the files of the catalog, the disk, the constructions *)

\* The most calls made on one object.
MaxCalls == 2

\* The arguments of the constructions modelled: a selector by attributes of a
\* public or a restricted level, online or offline, and one by a list of files.
Constructions ==
    LET by_attributes ==
            {[Defaults EXCEPT !.sc = Str("mms1"), !.instr = Str("fgm"),
                              !.mode = Str("brst"), !.level = lv,
                              !.optdesc = Str("dfg"), !.version = Str("1.0.0"),
                              !.start_date = Str("2020-01-05"),
                              !.end_date = Str("2020-01-07T00:00:00"),
                              !.data_root = Str(DataRoot), !.offline = off]
                 : lv \in {Str("l2"), Str("l1a")}, off \in BOOLEAN}
        by_files ==
            {[Defaults EXCEPT !.files = List(<<FileName(1)>>),
                              !.start_date = Str("2020-01-05"),
                              !.end_date = Str("2020-01-07T00:00:00"),
                              !.data_root = Str(DataRoot)]}
    IN by_attributes \cup by_files

\* The disks a run may start on: the end-of-interval file and the first file
\* of the catalog may be there already.
Disks ==
    LET s == init([Defaults EXCEPT !.data_root = Str(DataRoot)]).self
    IN SUBSET {name2path(s, EndFileName), name2path(s, FileName(1))}

NoTasks == <<>>

Init ==
    /\ \E a \in Constructions : self = init(a).self /\ entry = init(a).self
    /\ exc = NoExc
    /\ ret = None
    /\ call = <<"__init__">>
    /\ ncalls = 0
    /\ pc = "idle"
    /\ disk \in Disks
    /\ requests = {}
    /\ url = ""
    /\ local_files = <<>>
    /\ remote_files = <<>>
    /\ listed = <<>>
    /\ site = ""
    /\ state = <<>>
    /\ file_info = None
    /\ newfiles = NoTasks
    /\ r = None /\ nAttempts = 0 /\ logins = 0 /\ posts = 0
    /\ dates = <<>> /\ pwd = "" /\ result = <<>> /\ searched = 0
    /\ cwd = WorkDir

----------------------------------------------------------------------------
(* Attribute assignment and Query(), called from outside *)

Idle == pc = "idle" /\ ncalls < MaxCalls

\* A call returns or raises: its locals are gone.
Forget ==
    /\ url' = "" /\ local_files' = <<>> /\ remote_files' = <<>> /\ listed' = <<>>
    /\ site' = "" /\ state' = <<>> /\ file_info' = None /\ newfiles' = NoTasks

\* self.<name> = value
Assign(name, value) ==
    /\ Idle
    /\ LET o == setattr(self, name, value)
       IN self' = o.self /\ exc' = o.exc
    /\ ret' = None
    /\ call' = <<"__setattr__", name, value>>
    /\ ncalls' = ncalls + 1
    /\ entry' = self
    /\ UNCHANGED <<pc, disk, requests, locals>>
    /\ UNCHANGED <<getvars, searchvars, cwd>>

\* self.Query()
CallQuery ==
    /\ Idle
    /\ LET q == Query(self)
       IN ret' = q.val /\ exc' = q.exc
    /\ call' = <<"Query">>
    /\ ncalls' = ncalls + 1
    /\ entry' = self
    /\ UNCHANGED <<self, pc, disk, requests, locals>>
    /\ UNCHANGED <<getvars, searchvars, cwd>>

FileNotFoundError == "FileNotFoundError"
PermissionError == "PermissionError"
KeyboardInterrupt == "KeyboardInterrupt"

\* The path of the loop at lines 343-353 stands for the date it was made of.
NextDate == dates[searched + 1]

\* Lines 355-359 and the raise statements: Local_FileNames ends, its locals
\* are gone.
ForgetSearch == dates' = <<>> /\ pwd' = "" /\ result' = <<>> /\ searched' = 0

\* self.Local_FileNames() called from outside; lines 320-341: the dates are
\* listed, the paths made of them and the working directory kept aside.
LocalFileNamesCall ==
    /\ Idle
    /\ dates' = DatesOf(self)
    /\ pwd' = cwd
    /\ result' = <<>>
    /\ searched' = 0
    /\ pc' = "Local_FileNames"
    /\ call' = <<"Local_FileNames">>
    /\ ncalls' = ncalls + 1
    /\ entry' = self
    /\ exc' = NoExc /\ ret' = None
    /\ UNCHANGED <<self, disk, requests, locals, cwd>>
    /\ UNCHANGED getvars

\* Lines 342-346: os.chdir(root) into the directory of the next path.
LocalChdir ==
    /\ pc = "Local_FileNames" /\ searched < Len(dates)
    /\ DirExists(disk, DayDir(self, NextDate))
    /\ cwd' = DayDir(self, NextDate)
    /\ pc' = "glob"
    /\ UNCHANGED <<self, exc, ret, call, ncalls, entry, disk, requests, locals>>
    /\ UNCHANGED <<getvars, searchvars>>

\* Lines 346-347: the directory is not there: FileNotFoundError, continue.
LocalChdirMissing ==
    /\ pc = "Local_FileNames" /\ searched < Len(dates)
    /\ ~DirExists(disk, DayDir(self, NextDate))
    /\ searched' = searched + 1
    /\ UNCHANGED <<self, exc, ret, call, ncalls, entry, pc, disk, requests, locals>>
    /\ UNCHANGED <<getvars, dates, pwd, result, cwd>>

\* Lines 348-350: os.chdir raises anything else (the directory is there and
\* may not be entered): the working directory is put back and the exception
\* raised again.
LocalChdirRaises ==
    /\ pc = "Local_FileNames" /\ searched < Len(dates)
    /\ DirExists(disk, DayDir(self, NextDate))
    /\ cwd' = pwd
    /\ exc' = PermissionError
    /\ pc' = "idle"
    /\ ForgetSearch
    /\ UNCHANGED <<self, ret, call, ncalls, entry, disk, requests, locals>>
    /\ UNCHANGED getvars

\* Lines 352-353: glob.glob lists the directory; the files found are appended.
LocalGlob ==
    /\ pc = "glob"
    /\ result' = result \o FoundOn(self, NextDate, disk)
    /\ searched' = searched + 1
    /\ pc' = "Local_FileNames"
    /\ UNCHANGED <<self, exc, ret, call, ncalls, entry, disk, requests, locals>>
    /\ UNCHANGED <<getvars, dates, pwd, cwd>>

\* Lines 352-353: an exception comes out of glob.glob (it catches OSError
\* itself; an interrupt while it lists is not caught): nothing around the
\* loop catches it.
LocalGlobRaises ==
    /\ pc = "glob"
    /\ exc' = KeyboardInterrupt
    /\ pc' = "idle"
    /\ ForgetSearch
    /\ UNCHANGED <<self, ret, call, ncalls, entry, disk, requests, locals, cwd>>
    /\ UNCHANGED getvars

\* Lines 355-357: every path is done: os.chdir(pwd), the result is returned.
LocalFileNamesReturns ==
    /\ pc = "Local_FileNames" /\ searched = Len(dates)
    /\ cwd' = pwd
    /\ ret' = List(result)
    /\ pc' = "idle"
    /\ ForgetSearch
    /\ UNCHANGED <<self, exc, call, ncalls, entry, disk, requests, locals>>
    /\ UNCHANGED getvars

----------------------------------------------------------------------------
(* Get(), FileNames(), FileInfo() *)

sdc_home == "https://lasp.colorado.edu/mms/sdc"

ConnectionError == "ConnectionError"

\* Lines 385-386 and 230-231: the URL without the query
UrlOf(s) ==
    Join("/", <<sdc_home, s.site, "files", "api", "v1", s.info_type[2], s.data_type[2]>>)

\* The keys of a query in the order Query() inserts them.
QueryOrder ==
    <<"sc_id", "instrument_id", "data_rate_mode", "data_level", "descriptor",
      "version", "files", "start_date", "end_date", "product">>

\* A dict of strings as the form data of a POST: key=value joined by '&'.
FormData(d) ==
    LET keys == SelectSeq(QueryOrder, LAMBDA k : k \in DOMAIN d)
    IN Join("&", [i \in 1..Len(keys) |-> keys[i] \o "=" \o d[keys[i]]])

\* The request Get() posts: its URL and its data, the query.
GetRequest(s) == [url |-> UrlOf(s), data |-> FormData(Query(s).val)]

\* A response of the SDC, by its status code
Response(status) == <<"Response", status>>

\* Response.ok: the status code is below 400.
Ok(response) == response[2] < 400

\* Line 166
maxAttempts == 3

\* The errors check_response raises: ConnectionError('Failed log-in.') and
\* ConnectionError(response.reason).
FailedLogIn == "ConnectionError('Failed log-in.')"
BadResponse == "ConnectionError(response.reason)"

\* parse_qs(response.request.body): the fields of the query that was posted,
\* those with a blank value dropped.
ParseQs(d) == [k \in {x \in DOMAIN d : d[x] # ""} |-> d[k]]

\* Lines 175-177: the request made again, to the URL of the first, which is
\* the request Get() posted for s.
Remade(s) == [url |-> UrlOf(s), data |-> FormData(ParseQs(Query(s).val))]

\* The loop of lines 168-186 as it would be with one attempt more
AttemptsLeftOneMore(n) == n <= maxAttempts + 1

\* Line 168: while nAttempts <= maxAttempts
AttemptsLeft(n) == n <= maxAttempts

\* Where check_response goes on from the test of the loop with nAttempts = n:
\* into the loop, or past it to the test of line 189.
LoopFrom(n) == IF AttemptsLeft(n) THEN "login" ELSE "after"

\* FileNames() or FileInfo() called from outside: the kind of request is
\* set (lines 286, 293) and Get() entered.
GetCall(info_type) ==
    /\ Idle
    /\ self' = [self EXCEPT !.info_type = Str(info_type)]
    /\ call' = <<"Get", info_type>>
    /\ ncalls' = ncalls + 1
    /\ entry' = self
    /\ exc' = NoExc /\ ret' = None
    /\ requests' = {}
    /\ r' = None /\ nAttempts' = 0 /\ logins' = 0 /\ posts' = 0
    /\ pc' = "post"
    /\ UNCHANGED <<disk, locals, searchvars, cwd>>

\* What a step of Get() and check_response leaves alone.
GetFrame == UNCHANGED <<self, call, ncalls, entry, disk, locals, searchvars, cwd>>

\* Line 389: the post is answered; line 392: a response that is not ok
\* goes to check_response.
GetPost(status) ==
    /\ pc = "post"
    /\ Query(self).exc = NoExc
    /\ requests' = requests \cup {GetRequest(self)}
    /\ posts' = posts + 1
    /\ r' = Response(status)
    /\ pc' = IF Ok(Response(status)) THEN "return" ELSE "check_response"
    /\ UNCHANGED <<exc, ret, nAttempts, logins>>
    /\ GetFrame

\* Line 389: Query() raises and nothing is posted, or the post raises.
GetPostRaises ==
    /\ pc = "post"
    /\ IF Query(self).exc # NoExc
           THEN exc' = Query(self).exc /\ UNCHANGED <<requests, posts>>
           ELSE /\ exc' = ConnectionError
                /\ requests' = requests \cup {GetRequest(self)}
                /\ posts' = posts + 1
    /\ pc' = "idle"
    /\ UNCHANGED <<ret, r, nAttempts, logins>>
    /\ GetFrame

\* Lines 159-167 and 192-193: a 200 is handed back, a 401 starts the
\* attempts at 1, any other status raises.
CheckResponse ==
    /\ pc = "check_response"
    /\ IF r = Response(200) THEN pc' = "return" /\ UNCHANGED <<exc, nAttempts>>
       ELSE IF r = Response(401) THEN pc' = LoopFrom(1) /\ nAttempts' = 1 /\ UNCHANGED exc
       ELSE pc' = "idle" /\ exc' = BadResponse /\ UNCHANGED nAttempts
    /\ UNCHANGED <<ret, requests, r, logins, posts>>
    /\ GetFrame

\* Line 170: login() asks for the user name and the password and keeps them
\* in the session.
Login ==
    /\ pc = "login"
    /\ logins' = logins + 1
    /\ pc' = "remake"
    /\ UNCHANGED <<exc, ret, requests, r, nAttempts, posts>>
    /\ GetFrame

\* Lines 175-186: the request is made again and answered; a response that
\* is ok leaves the loop, one that is not counts one more attempt.
Remake(status) ==
    /\ pc = "remake"
    /\ requests' = requests \cup {Remade(self)}
    /\ posts' = posts + 1
    /\ r' = Response(status)
    /\ IF Ok(Response(status))
           THEN pc' = "after" /\ UNCHANGED nAttempts
           ELSE pc' = LoopFrom(nAttempts + 1) /\ nAttempts' = nAttempts + 1
    /\ UNCHANGED <<exc, ret, logins>>
    /\ GetFrame

\* Line 177: the post of the request made again raises.
RemakeRaises ==
    /\ pc = "remake"
    /\ requests' = requests \cup {Remade(self)}
    /\ posts' = posts + 1
    /\ exc' = ConnectionError
    /\ pc' = "idle"
    /\ UNCHANGED <<ret, r, nAttempts, logins>>
    /\ GetFrame

\* Lines 189-196: past the loop, the log-in has failed or the response of
\* the last attempt is handed back.
AfterLoop ==
    /\ pc = "after"
    /\ IF nAttempts > maxAttempts THEN pc' = "idle" /\ exc' = FailedLogIn
       ELSE pc' = "return" /\ UNCHANGED exc
    /\ UNCHANGED <<ret, requests, r, nAttempts, logins, posts>>
    /\ GetFrame

\* Line 396: Get() returns the response.
GetReturn ==
    /\ pc = "return"
    /\ ret' = r
    /\ pc' = "idle"
    /\ UNCHANGED <<exc, requests, r, nAttempts, logins, posts>>
    /\ GetFrame

----------------------------------------------------------------------------
(* Search() *)

\* self.Search() called from outside
SearchCall ==
    /\ Idle
    /\ pc' = "Search"
    /\ call' = <<"Search">>
    /\ ncalls' = ncalls + 1
    /\ entry' = self
    /\ exc' = NoExc /\ ret' = None
    /\ requests' = {}
    /\ UNCHANGED <<self, disk, locals>>
    /\ UNCHANGED <<getvars, searchvars, cwd>>

\* SearchOffline as it would be if the listing were asked for all the same
SearchOfflineAsking ==
    /\ pc = "Search" /\ self.offline
    /\ local_files' = Local_FileNames(self, disk)
    /\ remote_files' = <<>>
    /\ listed' = <<>>
    /\ requests' = requests \cup {GetRequest(self)}
    /\ pc' = "Filter"
    /\ UNCHANGED <<self, exc, ret, call, ncalls, entry, disk,
                   url, site, state, file_info, newfiles>>
    /\ UNCHANGED <<getvars, searchvars, cwd>>

\* Lines 583-585: offline, the local search alone.
SearchOffline ==
    /\ pc = "Search" /\ self.offline
    /\ local_files' = Local_FileNames(self, disk)
    /\ remote_files' = <<>>
    /\ listed' = <<>>
    /\ pc' = "Filter"
    /\ UNCHANGED <<self, exc, ret, call, ncalls, entry, disk, requests,
                   url, site, state, file_info, newfiles>>
    /\ UNCHANGED <<getvars, searchvars, cwd>>

\* Partition as it would be if the remote list kept every remote file
PartitionKeepingAll(s, remote, files) ==
    [local_files |-> SelectSeq(remote2localnames(s, remote), LAMBDA p : p \in files),
     remote_files |-> remote]

\* Lines 594-599: the local names of the remote files, those that are files
\* on the disk, and the remote files that are not.
Partition(s, remote, files) ==
    LET local == remote2localnames(s, remote)
        idx == {i \in 1..Len(local) : local[i] \in files}
        pick(list, I) == LET at == SelectSeq([i \in 1..Len(list) |-> i], LAMBDA i : i \in I)
                         IN [k \in 1..Len(at) |-> list[at[k]]]
    IN [local_files |-> pick(local, idx),
        remote_files |-> pick(remote, (1..Len(remote)) \ idx)]

\* Lines 296-302: the files of a response text, filtered by time.
FilesOfText(s, text) ==
    IF text = "" THEN <<>>
    ELSE filter_time(Split(text, ","), date_getter(s.start_date), date_getter(s.end_date))

\* Lines 590-599: online, FileNames() answers and the files are told apart.
SearchOnline ==
    /\ pc = "Search" /\ ~self.offline
    /\ LET s == [self EXCEPT !.info_type = Str("file_names")]
       IN /\ Query(s).exc = NoExc
          /\ self' = s
          /\ requests' = requests \cup {GetRequest(s)}
          /\ \E listing \in Listings :
                LET files == FilesOfText(s, Join(",", listing))
                    parts == Partition(s, files, disk)
                IN /\ listed' = files
                   /\ local_files' = parts.local_files
                   /\ remote_files' = parts.remote_files
    /\ pc' = "Filter"
    /\ UNCHANGED <<exc, ret, call, ncalls, entry, disk, url, site, state,
                   file_info, newfiles>>
    /\ UNCHANGED <<getvars, searchvars, cwd>>

\* FileNames() raises: Query() does, or the request fails.
SearchRaises ==
    /\ pc = "Search" /\ ~self.offline
    /\ LET s == [self EXCEPT !.info_type = Str("file_names")]
       IN /\ self' = s
          /\ IF Query(s).exc # NoExc
                 THEN exc' = Query(s).exc /\ UNCHANGED requests
                 ELSE exc' = ConnectionError
                      /\ requests' = requests \cup {GetRequest(s)}
    /\ pc' = "idle"
    /\ Forget
    /\ UNCHANGED <<ret, call, ncalls, entry, disk>>
    /\ UNCHANGED <<getvars, searchvars, cwd>>

\* Lines 602-605: a list that is not empty is filtered by time.
Filtered(s, files) ==
    IF Len(files) > 0
        THEN filter_time(files, date_getter(s.start_date), date_getter(s.end_date))
        ELSE files

\* Lines 601-607: both lists filtered by time; Search() returns.
SearchFilter ==
    /\ pc = "Filter"
    /\ \E local \in {Filtered(self, local_files)}, remote \in {Filtered(self, remote_files)} :
          IF call[1] = "Search"
              THEN /\ pc' = "idle"
                   /\ ret' = <<List(local), List(remote)>>
                   /\ Forget
              ELSE /\ pc' = "Searched"
                   /\ local_files' = local
                   /\ remote_files' = remote
                   /\ UNCHANGED <<ret, listed, url, site, state, file_info, newfiles>>
    /\ UNCHANGED <<self, exc, call, ncalls, entry, disk, requests>>
    /\ UNCHANGED <<getvars, searchvars, cwd>>

----------------------------------------------------------------------------
(* DownloadFile(): one task of the pool *)

OSError == "OSError"
ChunkedEncodingError == "ChunkedEncodingError"

\* A task of the pool: where it stands, the file it writes, the chunks it has
\* written and the exception it holds.
Task(st, file, chunks, err) == [st |-> st, file |-> file, chunks |-> chunks, err |-> err]

\* Lines 206-209: the destination of a file
Destination(s, address, file_name) ==
    IF Contains(address, "ancillary") THEN ancillaryname2path(s, file_name)
    ELSE name2path(s, file_name)

\* RemoveIfExists as it would be if it removed nothing
RemoveNothing(files, pathname) == files

\* RemoveIfExists
RemoveIfExists(files, pathname) ==
    IF pathname \in files THEN files \ {pathname} ELSE files

Running(i) == pc = "Running" /\ i \in 1..Len(newfiles)

\* What a step of task i leaves alone.
TaskFrame == UNCHANGED <<self, exc, ret, call, ncalls, entry, pc, url,
                         local_files, remote_files, listed, site, state, file_info,
                         getvars, searchvars, cwd>>

\* Lines 206-216: the destination is worked out and the request posted; the
\* request succeeds or raises.
TaskPost(i) ==
    /\ Running(i) /\ newfiles[i].st = "queued"
    /\ LET file == Destination(self, url, file_info[2][i])
       IN \E ok \in BOOLEAN :
             newfiles' = [newfiles EXCEPT ![i] =
                 IF ok THEN Task("posted", file, 0, NoExc)
                       ELSE Task("raised", file, 0, ConnectionError)]
    /\ requests' = requests \cup {[url |-> url, data |-> "file=" \o file_info[2][i]]}
    /\ UNCHANGED disk
    /\ TaskFrame

\* Line 217: open(file, 'wb') creates the file, or raises and creates none.
TaskOpen(i) ==
    /\ Running(i) /\ newfiles[i].st = "posted"
    /\ \E ok \in BOOLEAN :
          IF ok THEN /\ newfiles' = [newfiles EXCEPT ![i].st = "open"]
                     /\ disk' = disk \cup {newfiles[i].file}
                ELSE /\ newfiles' = [newfiles EXCEPT ![i].st = "raised", ![i].err = OSError]
                     /\ UNCHANGED disk
    /\ UNCHANGED requests
    /\ TaskFrame

\* Lines 218-220: one more chunk is read and written, or reading it from the
\* stream or writing it raises (the with statement closes the file).
TaskChunk(i) ==
    /\ Running(i) /\ newfiles[i].st = "open" /\ newfiles[i].chunks < MaxChunks
    /\ \E e \in {NoExc, ChunkedEncodingError, OSError} :
          newfiles' = [newfiles EXCEPT ![i] =
              IF e = NoExc THEN Task("open", @.file, @.chunks + 1, NoExc)
                           ELSE Task("raised", @.file, @.chunks, e)]
    /\ UNCHANGED <<disk, requests>>
    /\ TaskFrame

\* Line 225: the stream has ended; the file is closed and DownloadFile returns.
TaskReturn(i) ==
    /\ Running(i) /\ newfiles[i].st = "open"
    /\ newfiles' = [newfiles EXCEPT ![i].st = "done"]
    /\ UNCHANGED <<disk, requests>>
    /\ TaskFrame

\* Lines 221-223: the except clause removes the file and raises again.
TaskExcept(i) ==
    /\ Running(i) /\ newfiles[i].st = "raised"
    /\ disk' = RemoveIfExists(disk, newfiles[i].file)
    /\ newfiles' = [newfiles EXCEPT ![i].st = "failed"]
    /\ UNCHANGED requests
    /\ TaskFrame

----------------------------------------------------------------------------
(* Download() *)

KeyError == "KeyError"

\* self.Download() called from outside; lines 228-231.
DownloadCall ==
    /\ Idle
    /\ self' = [self EXCEPT !.info_type = Str("download")]
    /\ url' = UrlOf(self')
    /\ pc' = "Search"
    /\ call' = <<"Download">>
    /\ ncalls' = ncalls + 1
    /\ entry' = self
    /\ exc' = NoExc /\ ret' = None
    /\ requests' = {}
    /\ UNCHANGED <<disk, local_files, remote_files, listed, site, state,
                   file_info, newfiles>>
    /\ UNCHANGED <<getvars, searchvars, cwd>>

\* Lines 235-241 and 281: offline, or no file is missing: the local files
\* are returned.
DownloadLocal ==
    /\ pc = "Searched"
    /\ self.offline \/ Len(remote_files) = 0
    /\ ret' = List(local_files)
    /\ pc' = "idle"
    /\ Forget
    /\ UNCHANGED <<self, exc, call, ncalls, entry, disk, requests>>
    /\ UNCHANGED <<getvars, searchvars, cwd>>

\* The attributes lines 248-255 keep aside, in the order of the dict.
StateKeys == <<"sc", "instr", "mode", "level", "optdesc", "version", "files">>

\* file.split('/')[-1] for each remote file
LastParts(remote) == [i \in 1..Len(remote) |-> Basename(remote[i])]

\* DownloadSelect as it would be if site were not put back after files is set
DownloadSelectLeavingSite ==
    /\ pc = "Searched"
    /\ ~self.offline /\ Len(remote_files) > 0
    /\ site' = self.site
    /\ state' = [k \in {StateKeys[i] : i \in 1..Len(StateKeys)} |-> self[k]]
    /\ self' = setattr(self, "files", List(LastParts(remote_files))).self
    /\ pc' = "FileInfo"
    /\ UNCHANGED <<exc, ret, call, ncalls, entry, disk, requests, url,
                   local_files, remote_files, listed, file_info, newfiles>>
    /\ UNCHANGED <<getvars, searchvars, cwd>>

\* Lines 247-261: site and the attributes are kept aside, files is set to the
\* names of the missing files and site is put back.
DownloadSelect ==
    /\ pc = "Searched"
    /\ ~self.offline /\ Len(remote_files) > 0
    /\ site' = self.site
    /\ state' = [k \in {StateKeys[i] : i \in 1..Len(StateKeys)} |-> self[k]]
    /\ self' = setattr(setattr(self, "files", List(LastParts(remote_files))).self,
                       "site", Str(self.site)).self
    /\ pc' = "FileInfo"
    /\ UNCHANGED <<exc, ret, call, ncalls, entry, disk, requests, url,
                   local_files, remote_files, listed, file_info, newfiles>>
    /\ UNCHANGED <<getvars, searchvars, cwd>>

\* Line 262: FileInfo() answers, with the information on the files asked for
\* or with a body that holds no 'files'.
FileInfoAnswers ==
    /\ pc = "FileInfo"
    /\ LET s == [self EXCEPT !.info_type = Str("file_info")]
       IN /\ Query(s).exc = NoExc
          /\ self' = s
          /\ requests' = requests \cup {GetRequest(s)}
    /\ \E complete \in BOOLEAN :
          file_info' = IF complete THEN List(self.files[2]) ELSE None
    /\ pc' = "Pool"
    /\ UNCHANGED <<exc, ret, call, ncalls, entry, disk, url, local_files,
                   remote_files, listed, site, state, newfiles>>
    /\ UNCHANGED <<getvars, searchvars, cwd>>

\* Line 262: FileInfo() raises; nothing catches it in Download().
FileInfoRaises ==
    /\ pc = "FileInfo"
    /\ LET s == [self EXCEPT !.info_type = Str("file_info")]
       IN /\ self' = s
          /\ IF Query(s).exc # NoExc
                 THEN exc' = Query(s).exc /\ UNCHANGED requests
                 ELSE exc' = ConnectionError
                      /\ requests' = requests \cup {GetRequest(s)}
    /\ pc' = "idle"
    /\ Forget
    /\ UNCHANGED <<ret, call, ncalls, entry, disk>>
    /\ UNCHANGED <<getvars, searchvars, cwd>>

RECURSIVE RestoreFrom(_, _, _)
\* Lines 270-272 and 277-279: for each key kept aside, files is set to None
\* and the key to its kept value.
RestoreFrom(s, kept, i) ==
    IF i > Len(StateKeys) THEN s
    ELSE RestoreFrom(setattr(setattr(s, "files", None).self,
                             StateKeys[i], kept[StateKeys[i]]).self,
                     kept, i + 1)

Restore(s, kept) == RestoreFrom(s, kept, 1)

\* Lines 267-268: the pool takes one task per file.
PoolMap ==
    /\ pc = "Pool" /\ file_info # None
    /\ newfiles' = [i \in 1..Len(file_info[2]) |-> Task("queued", "", 0, NoExc)]
    /\ pc' = "Running"
    /\ UNCHANGED <<self, exc, ret, call, ncalls, entry, disk, requests, url,
                   local_files, remote_files, listed, site, state, file_info>>
    /\ UNCHANGED <<getvars, searchvars, cwd>>

\* Lines 268-273: file_info['files'] raises inside the try; the except clause
\* restores the attributes and raises again.
PoolRaises ==
    /\ pc = "Pool" /\ file_info = None
    /\ self' = Restore(self, state)
    /\ exc' = KeyError
    /\ pc' = "idle"
    /\ Forget
    /\ UNCHANGED <<ret, call, ncalls, entry, disk, requests>>
    /\ UNCHANGED <<getvars, searchvars, cwd>>

\* SomeFailed as it would be if the results of the tasks were never read
NoneFailed == FALSE

AllFinished == \A i \in 1..Len(newfiles) : newfiles[i].st \in {"done", "failed"}
SomeFailed == \E i \in 1..Len(newfiles) : newfiles[i].st = "failed"

\* The exception of the first failed task, in the order of the files.
FirstFailure ==
    newfiles[CHOOSE i \in 1..Len(newfiles) :
                 /\ newfiles[i].st = "failed"
                 /\ \A j \in 1..(i - 1) : newfiles[j].st # "failed"].err

\* DownloadReturns as it would be if the results replaced the local files
DownloadReturnsNewOnly ==
    /\ pc = "Running" /\ AllFinished /\ ~SomeFailed
    /\ self' = Restore(self, state)
    /\ ret' = List([i \in 1..Len(newfiles) |-> newfiles[i].file])
    /\ pc' = "idle"
    /\ Forget
    /\ UNCHANGED <<exc, call, ncalls, entry, disk, requests>>
    /\ UNCHANGED <<getvars, searchvars, cwd>>

\* Lines 267-281: the pool has shut down with every task done; the results
\* extend the local files, the attributes are restored, Download() returns.
DownloadReturns ==
    /\ pc = "Running" /\ AllFinished /\ ~SomeFailed
    /\ self' = Restore(self, state)
    /\ ret' = List(local_files \o [i \in 1..Len(newfiles) |-> newfiles[i].file])
    /\ pc' = "idle"
    /\ Forget
    /\ UNCHANGED <<exc, call, ncalls, entry, disk, requests>>
    /\ UNCHANGED <<getvars, searchvars, cwd>>

\* Line 275: the pool has shut down and a task has failed: reading its
\* result raises, outside the try.
DownloadRaises ==
    /\ pc = "Running" /\ AllFinished /\ SomeFailed
    /\ exc' = FirstFailure
    /\ pc' = "idle"
    /\ Forget
    /\ UNCHANGED <<self, ret, call, ncalls, entry, disk, requests>>
    /\ UNCHANGED <<getvars, searchvars, cwd>>

----------------------------------------------------------------------------
(* The specifications *)

\* The assignments made between the calls of the runs of Spec.
Assignments ==
    {<<"site", Str("public")>>, <<"site", Str("private")>>, <<"sc", Str("mms2")>>,
     <<"files", List(<<FileName(2)>>)>>}

Next ==
    \/ \E a \in Assignments : Assign(a[1], a[2])
    \/ SearchCall
    \/ SearchOffline
    \/ SearchOnline
    \/ SearchRaises
    \/ SearchFilter
    \/ DownloadCall
    \/ DownloadLocal
    \/ DownloadSelect
    \/ FileInfoAnswers
    \/ FileInfoRaises
    \/ PoolMap
    \/ PoolRaises
    \/ \E i \in 1..MaxFiles : TaskPost(i)
    \/ \E i \in 1..MaxFiles : TaskOpen(i)
    \/ \E i \in 1..MaxFiles : TaskChunk(i)
    \/ \E i \in 1..MaxFiles : TaskReturn(i)
    \/ \E i \in 1..MaxFiles : TaskExcept(i)
    \/ DownloadReturns
    \/ DownloadRaises

Spec == Init /\ [][Next]_vars

----------------------------------------------------------------------------
(* The selector alone: every kind of attribute assignment, no remote call *)

\* The assignments of the runs of SpecSel: levels of both sites, valid and
\* invalid sites, files set and unset, attributes, data types, offline.
SelAssignments ==
    {<<"level", v>> : v \in {None, Str("l2"), Str("l3"), Str("l1a")}}
        \cup {<<"site", v>> : v \in {Str("public"), Str("private"), Str("team_site"),
                                     Str("public_site"), Str("mars")}}
        \cup {<<"files", v>> : v \in {None, List(<<>>), List(<<FileName(1)>>)}}
        \cup {<<"sc", Str("mms2")>>, <<"mode", Str("srvy")>>, <<"version", None>>}
        \cup {<<"data_type", Str("hk")>>, <<"data_type", Str("level2")>>,
              <<"data_type", None>>}
        \cup {<<"anc_product", Str("defatt")>>, <<"offline", TRUE>>}

\* The constructions of the runs of SpecSel: those of Spec, and one that
\* names an ancillary product and leaves data_type at its default.
SelConstructions ==
    Constructions \cup {[Defaults EXCEPT !.anc_product = Str("defatt"),
                                         !.data_root = Str(DataRoot)]}

InitSel ==
    /\ \E a \in SelConstructions : self = init(a).self /\ entry = init(a).self
    /\ exc = NoExc
    /\ ret = None
    /\ call = <<"__init__">>
    /\ ncalls = 0
    /\ pc = "idle"
    /\ disk = {}
    /\ requests = {}
    /\ url = ""
    /\ local_files = <<>>
    /\ remote_files = <<>>
    /\ listed = <<>>
    /\ site = ""
    /\ state = <<>>
    /\ file_info = None
    /\ newfiles = NoTasks
    /\ r = None /\ nAttempts = 0 /\ logins = 0 /\ posts = 0
    /\ dates = <<>> /\ pwd = "" /\ result = <<>> /\ searched = 0
    /\ cwd = WorkDir

NextSel == \E a \in SelAssignments : Assign(a[1], a[2])

SpecSel == InitSel /\ [][NextSel]_vars

----------------------------------------------------------------------------
(* The constructor on every kind of site, level and files argument *)

\* The site arguments of the runs of SpecCtor: the names of both sites, and
\* one that is the name of none.
CtorSites ==
    {Str("public"), Str("public_site"), Str("private"), Str("team"),
     Str("team_site"), Str("sitl"), Str("mars")}

\* The level arguments: none, the public levels and restricted ones.
CtorLevels == {None, Str("l2"), Str("l3"), Str("l1a"), Str("ql"), Str("sitl")}

\* The files arguments: none, an empty list, a list of one file.
CtorFiles == {None, List(<<>>), List(<<FileName(1)>>)}

CtorArguments ==
    {[Defaults EXCEPT !.site = st, !.level = lv, !.files = fl,
                      !.data_root = Str(DataRoot)]
         : st \in CtorSites, lv \in CtorLevels, fl \in CtorFiles}

\* After MMS_SDC_API_CLIENT(site=..., level=..., files=...): the object, or
\* the exception the constructor raised.
InitCtor ==
    /\ \E a \in CtorArguments :
          /\ self = init(a).self /\ entry = init(a).self
          /\ exc = init(a).exc
          /\ call = <<"__init__", a.site, a.level, a.files>>
    /\ ret = None
    /\ ncalls = 0
    /\ pc = "idle"
    /\ disk = {}
    /\ requests = {}
    /\ url = ""
    /\ local_files = <<>>
    /\ remote_files = <<>>
    /\ listed = <<>>
    /\ site = ""
    /\ state = <<>>
    /\ file_info = None
    /\ newfiles = NoTasks
    /\ r = None /\ nAttempts = 0 /\ logins = 0 /\ posts = 0
    /\ dates = <<>> /\ pwd = "" /\ result = <<>> /\ searched = 0
    /\ cwd = WorkDir

\* An assignment to an attribute of an object that was constructed.
AssignConstructed(name, value) ==
    /\ ~(call[1] = "__init__" /\ exc # NoExc)
    /\ Assign(name, value)

NextCtor == \E a \in SelAssignments : AssignConstructed(a[1], a[2])

SpecCtor == InitCtor /\ [][NextCtor]_vars

----------------------------------------------------------------------------
(* Query() on selectors of every kind of interval *)

\* The dates the runs of SpecQuery give a selector: none, a day, midnight and
\* a time of day, the days of a leap February.
QueryDates ==
    {None, Str("2020-01-05"), Str("2020-01-05T00:00:00"), Str("2020-01-05T12:30:00"),
     Str("2020-01-07T00:00:00"), Str("2020-02-28T06:00:00"), Str("2020-12-31")}

\* Strings in neither of the formats of the setters: another order of the
\* fields, a day that the month has not, a blank in the place of the T.
InvalidDates == {Str("05/01/2020"), Str("2020-02-30"), Str("2020-01-05 12:30:00")}

\* Selectors constructed with these dates.
QueryConstructions ==
    {[Defaults EXCEPT !.sc = Str("mms1"), !.instr = Str("fgm"),
                      !.start_date = sd, !.end_date = ed, !.data_root = Str(DataRoot)]
         : sd \in QueryDates, ed \in QueryDates}

InitQuery ==
    /\ \E a \in QueryConstructions : self = init(a).self /\ entry = init(a).self
    /\ exc = NoExc
    /\ ret = None
    /\ call = <<"__init__">>
    /\ ncalls = 0
    /\ pc = "idle"
    /\ disk = {}
    /\ requests = {}
    /\ url = ""
    /\ local_files = <<>>
    /\ remote_files = <<>>
    /\ listed = <<>>
    /\ site = ""
    /\ state = <<>>
    /\ file_info = None
    /\ newfiles = NoTasks
    /\ r = None /\ nAttempts = 0 /\ logins = 0 /\ posts = 0
    /\ dates = <<>> /\ pwd = "" /\ result = <<>> /\ searched = 0
    /\ cwd = WorkDir

NextQuery ==
    \/ \E name \in {"start_date", "end_date"}, v \in QueryDates \cup InvalidDates :
          Assign(name, v)
    \/ CallQuery

SpecQuery == InitQuery /\ [][NextQuery]_vars

----------------------------------------------------------------------------
(* File names: name2path, ancillaryname2path and ParseFileNames on the names *)
(* of every layout                                                          *)

\* The fields of the science and housekeeping files of the runs: spacecraft,
\* instrument, mode, level, descriptor ("" when the name has none), time tag
\* and version with the extension.
ScienceFields ==
    {<<"mms1", "fgm", "brst", "l2", "", "20200105010000", "v1.0.0.cdf">>,
     <<"mms1", "fgm", "brst", "l2", "dfg", "20200105010000", "v1.0.0.cdf">>,
     <<"mms2", "fgm", "srvy", "l2", "", "20200105", "v5.1.0.cdf">>,
     <<"mms3", "fpi", "fast", "l2", "des-moms", "20200105120000", "v3.3.0.cdf">>,
     <<"mms4", "edp", "slow", "l2", "dce", "20200229", "v2.1.0.cdf">>,
     <<"mms1", "fields", "hk", "l1b", "101", "20150910", "v0.0.1.cdf">>,
     <<"mms2", "fpi", "brst", "l1a", "", "20191231235959", "v10.2.3.cdf">>}

\* The file name of the fields f.
NameOf(f) == Join("_", SelectSeq(f, LAMBDA x : x # ""))

\* The fields of the ancillary files of the runs: spacecraft, product, first
\* and last day of year with the version as extension.
AncillaryFields ==
    {<<"MMS1", "DEFATT", "2020001", "2020002.V00">>,
     <<"mms2", "defeph", "2020005", "2020006.V01">>,
     <<"MMS3", "PREDEPH", "2019365", "2020001.V02">>}

\* The name the format of the ancillary path is quoted with.
QuotedAncillaryName == "mms1_defatt_2020001_2020010_v01.V00"

\* The remote name under which the catalog lists the science file of the
\* fields f: mms/data/sc/instr/mode/level[/optdesc]/YYYY/MM[/DD]/name, the
\* day for burst files only.
ScienceRemoteName(f) ==
    Join("/", <<"mms", "data">> \o SelectSeq(SubSeq(f, 1, 5), LAMBDA x : x # "")
                  \o <<Slice(f[6], 0, 4), Slice(f[6], 4, 6)>>
                  \o (IF f[3] = "brst" THEN <<Slice(f[6], 6, 8)>> ELSE <<>>)
                  \o <<NameOf(f)>>)

\* The remote name of the ancillary file of the fields f:
\* mms/data/ancillary/sc/product/name, the directories in lower case.
AncillaryRemoteName(f) ==
    Join("/", <<"mms", "data", "ancillary", Lower(f[1]), Lower(f[2]), NameOf(f)>>)

\* The remote names of the runs.
RemoteNames ==
    {ScienceRemoteName(f) : f \in ScienceFields}
        \cup {AncillaryRemoteName(f) : f \in AncillaryFields}

\* The names of fewer than 6 fields given to ParseFileNames.
ShortNames ==
    {"readme.txt", "mms1_fgm.cdf", "mms1_fgm_brst_l2.cdf",
     "mms1_fgm_brst_l2_v1.0.0.cdf", "MMS1_DEFATT_2020001_2020002.V00",
     "/data/mms1/fgm/brst/l2/2020/01/05/mms1_fgm_brst_20200105010000_v1.0.0.cdf"}

\* The names given to ParseFileNames: the science names, one of them by its
\* local path, and the short ones.
ParsedNames ==
    {NameOf(f) : f \in ScienceFields} \cup ShortNames
        \cup {"/data/mms1/fgm/brst/l2/dfg/2020/01/05/" \o FileName(1)}

\* The download directories of the runs.
NameRoots == {"/data", "/Data/MMS", "/home/user/data/mms"}

InitNames ==
    /\ \E root \in NameRoots :
          /\ self = init([Defaults EXCEPT !.data_root = Str(root)]).self
          /\ entry = init([Defaults EXCEPT !.data_root = Str(root)]).self
    /\ exc = NoExc
    /\ ret = None
    /\ call = <<"__init__">>
    /\ ncalls = 0
    /\ pc = "idle"
    /\ disk = {}
    /\ requests = {}
    /\ url = ""
    /\ local_files = <<>>
    /\ remote_files = <<>>
    /\ listed = <<>>
    /\ site = ""
    /\ state = <<>>
    /\ file_info = None
    /\ newfiles = NoTasks
    /\ r = None /\ nAttempts = 0 /\ logins = 0 /\ posts = 0
    /\ dates = <<>> /\ pwd = "" /\ result = <<>> /\ searched = 0
    /\ cwd = WorkDir

\* What the call of a method that leaves the object alone changes.
Called(name, argument, outcome) ==
    /\ ret' = outcome.val /\ exc' = outcome.exc
    /\ call' = <<name, argument>>
    /\ ncalls' = ncalls + 1
    /\ entry' = self
    /\ UNCHANGED <<self, pc, disk, requests, locals>>
    /\ UNCHANGED <<getvars, searchvars, cwd>>

\* self.name2path(filename)
CallName2Path(filename) ==
    /\ Idle
    /\ Called("name2path", filename, Result(Str(name2path(self, filename)), NoExc))

\* self.ancillaryname2path(filename)
CallAncillaryName2Path(filename) ==
    /\ Idle
    /\ Called("ancillaryname2path", filename,
              Result(Str(ancillaryname2path(self, filename)), NoExc))

\* self.ParseFileNames(filename)
CallParseFileNames(filename) ==
    /\ Idle
    /\ Called("ParseFileNames", filename, ParseFileNames(filename))

\* self.remote2localnames(remote_names), with the list of one remote name
CallRemote2LocalNames(remote_name) ==
    /\ Idle
    /\ Called("remote2localnames", remote_name,
              Result(List(remote2localnames(self, <<remote_name>>)), NoExc))

NextNames ==
    \/ \E f \in ScienceFields : CallName2Path(NameOf(f))
    \/ \E filename \in {NameOf(f) : f \in AncillaryFields} \cup {QuotedAncillaryName} :
           CallAncillaryName2Path(filename)
    \/ \E filename \in ParsedNames : CallParseFileNames(filename)
    \/ \E remote_name \in RemoteNames : CallRemote2LocalNames(remote_name)

SpecNames == InitNames /\ [][NextNames]_vars

----------------------------------------------------------------------------
(* Get() and check_response: the requests of FileNames() and FileInfo()     *)
(* under every answer of the SDC                                            *)

\* The status codes the SDC answers with: ok, log-in required, and two
\* other refusals.
Statuses == {200, 401, 404, 500}

InitGet ==
    /\ \E a \in Constructions : self = init(a).self /\ entry = init(a).self
    /\ exc = NoExc
    /\ ret = None
    /\ call = <<"__init__">>
    /\ ncalls = 0
    /\ pc = "idle"
    /\ disk = {}
    /\ requests = {}
    /\ url = ""
    /\ local_files = <<>>
    /\ remote_files = <<>>
    /\ listed = <<>>
    /\ site = ""
    /\ state = <<>>
    /\ file_info = None
    /\ newfiles = NoTasks
    /\ r = None /\ nAttempts = 0 /\ logins = 0 /\ posts = 0
    /\ dates = <<>> /\ pwd = "" /\ result = <<>> /\ searched = 0
    /\ cwd = WorkDir

NextGet ==
    \/ \E info_type \in {"file_names", "file_info"} : GetCall(info_type)
    \/ \E status \in Statuses : GetPost(status)
    \/ GetPostRaises
    \/ CheckResponse
    \/ Login
    \/ \E status \in Statuses : Remake(status)
    \/ RemakeRaises
    \/ AfterLoop
    \/ GetReturn

\* Each step of the call is taken in the end: the SDC answers every post and
\* the user every prompt of login().
SpecGet == InitGet /\ [][NextGet]_vars /\ WF_vars(NextGet)

----------------------------------------------------------------------------
(* Local_FileNames() on selectors of every kind of interval, on every disk *)

\* The start dates of the runs of SpecLocal: a day, times of day, the eve of
\* a leap day.
LocalStarts ==
    {Str("2020-01-05"), Str("2020-01-05T12:30:00"), Str("2020-01-06T23:59:59"),
     Str("2020-01-07T00:00:00"), Str("2020-02-28T06:00:00")}

\* The end dates: none, days and times of day, the day after a leap day.
LocalEnds ==
    {None, Str("2020-01-05"), Str("2020-01-05T12:30:00"), Str("2020-01-07T00:00:00"),
     Str("2020-01-07T06:00:00"), Str("2020-03-01T00:00:00")}

\* Selectors of the burst files of the runs, constructed with these dates.
LocalConstructions ==
    {[Defaults EXCEPT !.sc = Str("mms1"), !.instr = Str("fgm"),
                      !.mode = Str("brst"), !.level = Str("l2"),
                      !.optdesc = Str("dfg"),
                      !.start_date = sd, !.end_date = ed, !.data_root = Str(DataRoot)]
         : sd \in LocalStarts, ed \in LocalEnds}

InitLocal ==
    /\ \E a \in LocalConstructions : self = init(a).self /\ entry = init(a).self
    /\ exc = NoExc
    /\ ret = None
    /\ call = <<"__init__">>
    /\ ncalls = 0
    /\ pc = "idle"
    /\ disk \in Disks
    /\ requests = {}
    /\ url = ""
    /\ local_files = <<>>
    /\ remote_files = <<>>
    /\ listed = <<>>
    /\ site = ""
    /\ state = <<>>
    /\ file_info = None
    /\ newfiles = NoTasks
    /\ r = None /\ nAttempts = 0 /\ logins = 0 /\ posts = 0
    /\ dates = <<>> /\ pwd = "" /\ result = <<>> /\ searched = 0
    /\ cwd = WorkDir

NextLocal ==
    \/ LocalFileNamesCall
    \/ LocalChdir
    \/ LocalChdirMissing
    \/ LocalChdirRaises
    \/ LocalGlob
    \/ LocalGlobRaises
    \/ LocalFileNamesReturns

SpecLocal == InitLocal /\ [][NextLocal]_vars

----------------------------------------------------------------------------
(* The claims *)

\* The attributes Download() keeps aside have in s the values they have in e.
SameSelection(s, e) == \A i \in 1..Len(StateKeys) : s[StateKeys[i]] = e[StateKeys[i]]

\* C1: when a Download() that reached the mutation step ends by raising,
\* because FileInfo() failed or because a download task failed, then as the
\* exception reaches the caller sc, instr, mode, level, optdesc, version and
\* files have the values they had immediately before the call.
C1_RaisingDownloadRestores ==
    [][(FileInfoRaises \/ DownloadRaises) => SameSelection(self', entry)]_vars

\* C1, the case reached: a Download() of a selector by attributes has raised
\* the error of a failed task, and the selector still names the missing files.
C1_Reached ==
    /\ pc = "idle" /\ call = <<"Download">> /\ exc = OSError
    /\ entry.sc # None /\ self.sc = None /\ self.files # None

\* C2: a Download() that downloads at least one file and returns leaves sc,
\* instr, mode, level, optdesc, version, files and site as they were
\* immediately before the call, whatever assignments made the selector.
C2_ReturningDownloadRestores ==
    [][DownloadReturns => SameSelection(self', entry) /\ self'.site = entry.site]_vars

\* C2, the case reached: a Download() has returned the files it downloaded,
\* on a selector whose site had been assigned after its level.
C2_Reached ==
    /\ pc = "idle" /\ call = <<"Download">> /\ exc = NoExc
    /\ ret # None /\ name2path(self, FileName(2)) \in disk
    /\ entry.level = Str("l1a") /\ entry.site = "public"

\* C3: whenever DownloadFile raises for a file (the request, opening or
\* writing the destination, or the stream at any chunk has failed), no file
\* exists at the file's destination as the exception leaves DownloadFile; a
\* DownloadFile that returns leaves the destination file in place.
C3_FailedDownloadLeavesNoFile ==
    [][\A i \in 1..Len(newfiles) :
          /\ (Len(newfiles') = Len(newfiles) /\ newfiles[i].st # "failed"
                  /\ newfiles'[i].st = "failed") => newfiles'[i].file \notin disk'
          /\ (Len(newfiles') = Len(newfiles) /\ newfiles[i].st # "done"
                  /\ newfiles'[i].st = "done") => newfiles'[i].file \in disk']_vars

\* C3, the case reached: one task has failed on the stream after its file was
\* created, and the file is gone; another has returned, and its file is there.
C3_Reached ==
    /\ pc = "Running"
    /\ \E i, j \in 1..Len(newfiles) :
          /\ newfiles[i].st = "failed" /\ newfiles[i].err = ChunkedEncodingError
          /\ newfiles[i].file \notin disk
          /\ newfiles[j].st = "done" /\ newfiles[j].file \in disk

\* C4: if at least one of the tasks of Download() has raised, Download()
\* raises and returns no list of files, whatever the number of files and the
\* interleaving of the tasks; a list is returned only when no task has raised.
C4_FailedTaskFailsDownload ==
    [][(pc = "Running" /\ pc' = "idle"
            /\ \E i \in 1..Len(newfiles) : newfiles[i].err # NoExc)
          => (exc' # NoExc /\ ret' = None)]_vars

\* C4, the case reached: Download() has raised the error of one task while
\* the file of another task, downloaded in the same call, is on the disk.
C4_Reached ==
    /\ pc = "idle" /\ call = <<"Download">> /\ ncalls = 1 /\ ret = None
    /\ exc \in {OSError, ChunkedEncodingError}
    /\ \E i \in 1..MaxFiles : name2path(self, FileName(i)) \in disk /\ i > 1

\* The places of a list, in order, whose entries are in a set.
Among(list, S) == SelectSeq(list, LAMBDA x : x \in S)

\* C5: in an online Search(), before the final time filter, every remote
\* name FileNames() returned is in exactly one of the two lists: its local
\* path is in the local list exactly when that path is a file on the disk,
\* otherwise the name is in the remote list; both lists keep the order of the
\* listing, with nothing added.
C5_SearchPartitionsListing ==
    (pc = "Filter" /\ ~self.offline) =>
        /\ local_files = Among(remote2localnames(self, listed), disk)
        /\ remote_files =
               Among(listed, {x \in {listed[i] : i \in 1..Len(listed)} :
                                 remote2localnames(self, <<x>>)[1] \notin disk})
        /\ Len(local_files) + Len(remote_files) = Len(listed)

\* C5, the case reached: a listing of two files in descending order of time,
\* the later one missing and the earlier one on the disk.
C5_Reached ==
    /\ pc = "Filter" /\ ~self.offline
    /\ listed = <<RemoteName(FileName(2)), RemoteName(FileName(1))>>
    /\ remote_files = <<RemoteName(FileName(2))>>
    /\ local_files = <<name2path(self, FileName(1))>>

\* Every attribute of the selector, the kind of request aside, is in s as in e.
SameSelector(s, e) == \A k \in (DOMAIN e) \ {"info_type"} : s[k] = e[k]

\* C6 as stated: with offline true, Download() and Search() send no request,
\* Search() returns an empty remote list, Download() returns exactly what the
\* local enumeration gives, and the selector's fields are not changed.
C6_OfflineReturnsEnumeration ==
    (call[1] \in {"Search", "Download"} /\ entry.offline) =>
        /\ requests = {}
        /\ SameSelector(self, entry)
        /\ (pc = "idle" /\ call[1] = "Search") => (exc = NoExc /\ ret[2] = List(<<>>))
        /\ (pc = "idle" /\ call[1] = "Download") =>
               (exc = NoExc /\ ret = List(Local_FileNames(self, disk)))

\* C6 as amended: with offline true, Download() and Search() send no request,
\* Search() returns an empty remote list, Download() returns the local list
\* of Search(), which is the local enumeration after the time filter, and the
\* selector's fields are not changed.
C6_OfflineReturnsFilteredEnumeration ==
    (call[1] \in {"Search", "Download"} /\ entry.offline) =>
        /\ requests = {}
        /\ SameSelector(self, entry)
        /\ (pc = "idle" /\ call[1] = "Search") =>
               /\ exc = NoExc
               /\ ret = <<List(Filtered(self, Local_FileNames(self, disk))), List(<<>>)>>
        /\ (pc = "idle" /\ call[1] = "Download") =>
               /\ exc = NoExc
               /\ ret = List(Filtered(self, Local_FileNames(self, disk)))

\* C6, the case reached: an offline Download() has returned, on a disk that
\* holds a file inside the interval and one of its last day past its end.
C6_Reached ==
    /\ pc = "idle" /\ call = <<"Download">> /\ entry.offline /\ exc = NoExc
    /\ disk = {name2path(self, FileName(1)), name2path(self, EndFileName)}
    /\ ret = List(<<name2path(self, FileName(1))>>)

\* C7 as stated: for every selector whose end date is set, a start date
\* being set or not, Query() gives end_date as the day after the end date
\* when the end date is of the same day as the start date or has a time of
\* day other than midnight, and as the day of the end date otherwise.
C7_QueryEndDate ==
    (pc = "idle" /\ call = <<"Query">> /\ IsDateTime(self.end_date)) =>
        /\ exc = NoExc
        /\ ret.end_date =
               IF \/ /\ IsDateTime(self.start_date)
                     /\ DateOf(self.start_date[2]) = DateOf(self.end_date[2])
                  \/ TimeOf(self.end_date[2]) # <<0, 0, 0>>
                   THEN StrfDate(AddDay(self.end_date[2]))
                   ELSE StrfDate(self.end_date[2])

\* C7, the case reached: Query() has been called on a selector with an end
\* date and no start date.
C7_Reached ==
    /\ pc = "idle" /\ call = <<"Query">>
    /\ self.start_date = None /\ IsDateTime(self.end_date)

\* The six attributes a list of files stands in for are all None in s.
AllCleared(s) == \A i \in 1..Len(Cleared) : s[Cleared[i]] = None

\* C8: right after files is assigned a list that is not empty, sc, instr,
\* mode, level, optdesc and version are all None and files holds the list;
\* assigning None to files leaves those six as they were.
C8_FilesClearsAttributes ==
    (/\ call[1] = "__setattr__" /\ call[2] = "files"
     /\ call[3] = None \/ (IsList(call[3]) /\ Len(call[3][2]) > 0)) =>
        /\ exc = NoExc
        /\ self.files = call[3]
        /\ IF call[3] = None
               THEN \A i \in 1..Len(Cleared) : self[Cleared[i]] = entry[Cleared[i]]
               ELSE AllCleared(self)

\* C8, the case reached: a list of files has been assigned to a selector
\* that named a spacecraft and a level.
C8_Reached ==
    /\ call = <<"__setattr__", "files", List(<<FileName(1)>>)>>
    /\ entry.sc # None /\ entry.level # None /\ self.sc = None

\* The selector s is both by attributes and by a list of files.
Both(s) == s.files # None /\ ~AllCleared(s)

\* C9 as stated: in every state reached by construction followed by
\* assignments and Download() calls, files is not None only if sc, instr,
\* mode, level, optdesc and version are all None.
C9_NeverBoth == ~Both(self)

\* The step is the assignment of a value to one of the names.
Assigned(names) ==
    /\ ncalls' = ncalls + 1 /\ call'[1] = "__setattr__" /\ call'[2] \in names

\* C9 as amended: construction and every assignment to files leave files not
\* None only with the six attributes all None, and no step of a Download()
\* makes a selector both by attributes and by files; a selector becomes both
\* only through the assignment of one of the six attributes while files is
\* not None.
C9_BothOnlyByLaterAssignment ==
    /\ ~Both(self)
    /\ [][/\ (Both(self') /\ ~Both(self)) =>
                (self.files # None /\ Assigned({Cleared[i] : i \in 1..Len(Cleared)}))
          /\ Assigned({"files"}) => ~Both(self')]_vars

\* C9, the case reached: a spacecraft has been assigned to a selector
\* constructed from a list of files, and the list is still there.
C9_Reached ==
    /\ call = <<"__setattr__", "sc", Str("mms2")>>
    /\ entry.files # None /\ self.files = entry.files /\ self.sc = Str("mms2")

\* The values the site setter takes, and the site each stands for.
PublicNames == {Str("public"), Str("public_site")}
RestrictedNames == {Str("team"), Str("team_site"), Str("sitl"), Str("private")}

\* C10, the states: site is one of the two sites; right after an assignment
\* to level it is the public one exactly for None, 'l2' and 'l3'; a valid
\* assignment to site takes effect; an invalid one raises and changes nothing.
C10_SiteNow ==
    /\ self.site \in {"public", "sitl"}
    /\ (call[1] = "__setattr__" /\ call[2] = "level") =>
           self.site = IF call[3] \in {None, Str("l2"), Str("l3")} THEN "public" ELSE "sitl"
    /\ (call[1] = "__setattr__" /\ call[2] = "site") =>
           IF call[3] \in PublicNames THEN exc = NoExc /\ self.site = "public"
           ELSE IF call[3] \in RestrictedNames THEN exc = NoExc /\ self.site = "sitl"
           ELSE exc = ValueError /\ self = entry

C11_AncProductSetsAncillary ==
    /\ (call = <<"__init__">> /\ self.anc_product # None) =>
           self.data_type = Str("ancillary")
    /\ (call[1] = "__setattr__" /\ call[2] = "anc_product" /\ call[3] # None) =>
           (exc = NoExc /\ self.data_type = Str("ancillary"))

\* C11, the case reached: a selector has been constructed with an ancillary
\* product and no data type.
C11_Reached ==
    /\ call = <<"__init__">> /\ self.anc_product = Str("defatt")

\* C12: in every reachable state data_type is one of 'ancillary', 'hk' and
\* 'science'; an assignment of any other value to data_type raises the
\* invalid-value error and leaves data_type and every other attribute of the
\* selector unchanged.
C12_DataTypeCanonical ==
    /\ self.data_type \in DataTypes
    /\ (call[1] = "__setattr__" /\ call[2] = "data_type" /\ call[3] \notin DataTypes) =>
           (exc = ValueError /\ self = entry)

\* C12, the case reached: a value that is not a str has been assigned to
\* data_type.
C12_Reached ==
    /\ call = <<"__setattr__", "data_type", None>> /\ exc # NoExc /\ self = entry

\* C13: for every ancillary file name, ancillaryname2path returns
\* <root>/ancillary/<spacecraft>/<product>/<name>, the spacecraft and the
\* product lower-cased and the file name unchanged; mms1_defatt_2020001_
\* 2020010_v01.V00 under a root maps to
\* <root>/ancillary/mms1/defatt/mms1_defatt_2020001_2020010_v01.V00.
C13_AncillaryPath ==
    /\ \A f \in AncillaryFields :
           call = <<"ancillaryname2path", NameOf(f)>> =>
               ret = Str(self.data_root[2] \o "/ancillary/" \o Lower(f[1]) \o "/"
                             \o Lower(f[2]) \o "/" \o NameOf(f))
    /\ call = <<"ancillaryname2path", QuotedAncillaryName>> =>
           ret = Str(self.data_root[2] \o "/ancillary/mms1/defatt/" \o QuotedAncillaryName)

\* C13, the case reached: the path of an ancillary file under a root written
\* with capitals has been asked for.
C13_Reached ==
    /\ call = <<"ancillaryname2path", "MMS1_DEFATT_2020001_2020002.V00">>
    /\ self.data_root = Str("/Data/MMS")

\* C14: for every well-formed science or housekeeping file name, with or
\* without descriptor, name2path returns
\* root/sc/instr/mode/level[/descriptor]/YYYY/MM/DD/<name> when the mode is
\* 'brst' and root/sc/instr/mode/level[/descriptor]/YYYY/MM/<name> for every
\* other mode, YYYY, MM, DD being the first 8 digits of the time tag.
C14_SciencePath ==
    \A f \in ScienceFields :
        call = <<"name2path", NameOf(f)>> =>
            ret = Str(self.data_root[2] \o "/" \o f[1] \o "/" \o f[2] \o "/" \o f[3]
                          \o "/" \o f[4] \o (IF f[5] = "" THEN "" ELSE "/" \o f[5])
                          \o "/" \o SubSeq(f[6], 1, 4) \o "/" \o SubSeq(f[6], 5, 6)
                          \o (IF f[3] = "brst" THEN "/" \o SubSeq(f[6], 7, 8) ELSE "")
                          \o "/" \o NameOf(f))

\* C14, the case reached: the path of a fast-mode file with a descriptor and
\* a time tag of 14 digits has been given, without a directory of the day.
C14_Reached ==
    /\ call = <<"name2path", "mms3_fpi_fast_l2_des-moms_20200105120000_v3.3.0.cdf">>
    /\ ret = Str("/data/mms3/fpi/fast/l2/des-moms/2020/01/"
                    \o "mms3_fpi_fast_l2_des-moms_20200105120000_v3.3.0.cdf")

\* C15: ParseFileNames signals a parse error for every file name of fewer
\* than 6 fields, and never returns a tuple of fields for such a name.
C15_ShortNameRaises ==
    (call[1] = "ParseFileNames" /\ call[2] \in ShortNames) =>
        (exc # NoExc /\ ret = None)

\* C15, the case reached: ParseFileNames has been given a name of 4 fields.
C15_Reached ==
    /\ call = <<"ParseFileNames", "mms1_fgm_brst_l2.cdf">>
    /\ ret = Tuple(<<"mms1", "fgm", "brst", "l2">>)

\* C16: for every file name of 6 or 7 fields ParseFileNames returns exactly
\* the 7 fields sc, instr, mode, level, optdesc, tstart, version: optdesc is
\* the empty string for a name of 6 fields and the fifth field for one of 7,
\* and the version has lost its last 4 characters.
C16_ParsedFields ==
    /\ \A f \in ScienceFields :
           call = <<"ParseFileNames", NameOf(f)>> =>
               /\ exc = NoExc
               /\ ret = Tuple(<<f[1], f[2], f[3], f[4], f[5], f[6],
                                SubSeq(f[7], 1, Len(f[7]) - 4)>>)
    /\ (call[1] = "ParseFileNames" /\ call[2] \notin ShortNames) =>
           (exc = NoExc /\ Len(ret[2]) = 7)

\* C16, the case reached: a name of 6 fields has been parsed.
C16_Reached ==
    /\ call = <<"ParseFileNames", "mms2_fgm_srvy_l2_20200105_v5.1.0.cdf">>
    /\ ret = Tuple(<<"mms2", "fgm", "srvy", "l2", "", "20200105", "v5.1.0">>)

\* C17, the states of a request: at most maxAttempts log-ins and as many
\* requests made again, each the request first posted; a response handed
\* back is ok, and after log-ins it is that of the first attempt that was ok;
\* the log-in fails only after maxAttempts attempts that were not ok; a
\* response that is neither ok nor 401 raises with no log-in.
C17_Now ==
    (call[1] = "Get") =>
        /\ logins <= maxAttempts /\ posts <= logins + 1
        /\ posts > 0 => requests = {GetRequest(self)}
        /\ (pc = "idle" /\ exc = NoExc) =>
               /\ ret = r /\ Ok(ret) /\ posts = logins + 1
               /\ logins > 0 => nAttempts = logins
        /\ exc = FailedLogIn =>
               (logins = maxAttempts /\ posts = maxAttempts + 1 /\ ~Ok(r))
        /\ exc = BadResponse =>
               (logins = 0 /\ posts = 1 /\ ~Ok(r) /\ r # Response(401))

\* C17: when a listing or file-info request is answered 401, the client
\* logs in and makes the request again at most 3 times; it returns the first
\* response that is ok, raises the failure of the log-in once all 3 attempts
\* have failed, and the loop ends in every case; any other response that is
\* not ok raises at once with no log-in.
C17_RetriesThenFails ==
    /\ []C17_Now
    /\ [][/\ (pc = "check_response" /\ r # Response(401)) =>
                 (pc' = "idle" /\ exc' = BadResponse)
          /\ (pc = "check_response" /\ r = Response(401)) => pc' = "login"
          /\ (pc = "remake" /\ exc' = NoExc /\ Ok(r')) => pc' = "after"
          /\ (pc = "after" /\ Ok(r)) => pc' = "return"
          /\ (pc = "after" /\ ~Ok(r)) => (pc' = "idle" /\ exc' = FailedLogIn)]_vars
    /\ (pc = "check_response") ~> (pc = "idle")

\* C17, the case reached: the request has been answered 401, then refused
\* once more after the first log-in, and its response after the second
\* log-in has been returned.
C17_Reached ==
    /\ call[1] = "Get" /\ pc = "idle" /\ exc = NoExc
    /\ logins = 2 /\ posts = 3 /\ ret = Response(200)

\* C18: in every interleaving of the download tasks in which all of them
\* have succeeded, Download() returns the local files Search() found followed
\* by the destinations of the missing files, each missing file once and
\* nothing else; when no file is missing it returns the local files as they
\* are and no file_info or download request has been made.
C18_DownloadReturnsLocalThenNew ==
    [][/\ (pc = "Running" /\ pc' = "idle"
              /\ \A i \in 1..Len(newfiles) : newfiles[i].st = "done")
          => LET n == Len(remote_files)
                 returned == ret'[2]
                 new == SubSeq(returned, Len(local_files) + 1, Len(returned))
             IN /\ exc' = NoExc
                /\ ret'[1] = "list"
                /\ SubSeq(returned, 1, Len(local_files)) = local_files
                /\ Len(new) = n
                /\ \E p \in [1..n -> 1..n] :
                      /\ \A i, j \in 1..n : p[i] = p[j] => i = j
                      /\ \A i \in 1..n :
                            new[p[i]] = Destination(self, url, Basename(remote_files[i]))
       /\ (pc = "Searched" /\ Len(remote_files) = 0 /\ pc' = "idle")
          => /\ exc' = NoExc
             /\ ret' = List(local_files)
             /\ \A q \in requests' : /\ ~Contains(q.url, "/file_info/")
                                     /\ ~Contains(q.url, "/download/")]_vars

\* C18, the case reached: an online Download() has returned more than one
\* path after download requests were made.
C18_Reached ==
    /\ call = <<"Download">> /\ pc = "idle" /\ exc = NoExc
    /\ ~self.offline
    /\ ret[1] = "list" /\ Len(ret[2]) >= 2
    /\ \E q \in requests : Contains(q.url, "/download/")
    /\ \E q \in requests : Contains(q.url, "/file_info/")

\* C19: in every reachable state the stored start and end dates are unset or
\* datetimes: a str assigned to start_date or end_date is stored only as the
\* datetime it parses to in %Y-%m-%dT%H:%M:%S or %Y-%m-%d, and a str in
\* neither format is rejected with an error and not stored.
C19_DatesAreTimestamps ==
    /\ [](\A name \in {"start_date", "end_date"} :
             self[name] = None \/ IsDateTime(self[name]))
    /\ [][\A name \in {"start_date", "end_date"} :
             (ncalls' = ncalls + 1 /\ call'[1] = "__setattr__" /\ call'[2] = name
                  /\ IsStr(call'[3]))
             => LET parsed == TryElse(strptime_datetime(call'[3][2]),
                                      strptime_date(call'[3][2]))
                IN IF parsed # None
                       THEN exc' = NoExc /\ self'[name] = parsed
                       ELSE exc' # NoExc /\ self'[name] = self[name]]_vars

\* C19, the case reached: a str in neither format has been assigned to a date.
C19_Reached ==
    /\ pc = "idle" /\ call[1] = "__setattr__"
    /\ call[2] \in {"start_date", "end_date"}
    /\ call[3] \in InvalidDates

\* The end date of a search of the local files: today when none is set.
LocalEnd == IF self.end_date = None THEN Today ELSE self.end_date[2]

\* C20: Local_FileNames searches every calendar day from the day of the start
\* date to the day of the end date inclusive, one day at a time, for every
\* start <= end, also when the start's time of day is later than the end's:
\* the first date searched is the start's day, the last the end's day, and
\* each date is the day after the one before it.
C20_EveryDaySearched ==
    (pc = "Local_FileNames" /\ DtLE(self.start_date[2], LocalEnd))
    => /\ Len(dates) >= 1
       /\ dates[1] = StrfCompact(self.start_date[2])
       /\ dates[Len(dates)] = StrfCompact(LocalEnd)
       /\ \A i \in 1..(Len(dates) - 1) :
             dates[i + 1] = StrfCompact(AddDay(TimeOfTag(dates[i])))

\* C20, the case reached: the dates are listed for a start at 12:30 on
\* 2020-01-05 and an end at 06:00 on 2020-01-07, and the file of 01:00 on
\* 2020-01-07 is on the disk.
C20_Reached ==
    /\ pc = "Local_FileNames"
    /\ self.start_date = DateTime(<<2020, 1, 5, 12, 30, 0>>)
    /\ self.end_date = DateTime(<<2020, 1, 7, 6, 0, 0>>)
    /\ name2path(self, EndFileName) \in disk

\* The requests of the running call that ask for file information or for a
\* file.
C21_Requests ==
    {q \in requests : Contains(q.url, "/file_info/") \/ Contains(q.url, "/download/")}

\* C21: during Download() the file_info request and every download request
\* go to the site in effect when Download() was called, never to the public
\* site that assigning files forces: site is put back to the value kept aside
\* after files is assigned and before the file_info request is made.
C21_RequestsGoToSiteOfCall ==
    (call = <<"Download">>)
    => /\ \A q \in C21_Requests :
             LET home == sdc_home \o "/" \o entry.site \o "/files/"
             IN Slice(q.url, 0, Len(home)) = home
       /\ (pc = "FileInfo") => (site = entry.site /\ self.site = entry.site
                                   /\ self.files # None /\ C21_Requests = {})

\* C21, the case reached: Download() called on a selector of the restricted
\* site has asked for file information and for a file.
C21_Reached ==
    /\ call = <<"Download">> /\ entry.site = "sitl"
    /\ \E q \in requests : Contains(q.url, "/file_info/")
    /\ \E q \in requests : Contains(q.url, "/download/")

\* C22: whenever Local_FileNames ends, by returning or by raising from a
\* change of directory or from the listing of a directory, the working
\* directory is the one of the time it was called; a day whose directory is
\* missing is skipped without an error.
C22_WorkingDirectoryRestored ==
    [][/\ (pc = "idle" /\ pc' = "Local_FileNames") => pwd' = cwd
       /\ (pc \in {"Local_FileNames", "glob"} /\ pc' \in {"Local_FileNames", "glob"})
          => pwd' = pwd
       /\ (pc \in {"Local_FileNames", "glob"} /\ pc' = "idle") => cwd' = pwd
       /\ (pc = "Local_FileNames" /\ searched < Len(dates)
               /\ ~DirExists(disk, DayDir(self, NextDate)))
          => (pc' = pc /\ searched' = searched + 1 /\ exc' = NoExc
                 /\ result' = result /\ cwd' = cwd)]_vars

\* C22, the case reached: the listing of a day's directory has raised, after
\* a day whose directory is missing was skipped.
C22_Reached ==
    /\ pc = "idle" /\ call = <<"Local_FileNames">>
    /\ exc = KeyboardInterrupt
    /\ name2path(self, EndFileName) \in disk
    /\ name2path(self, FileName(1)) \notin disk
    /\ self.start_date = DateTime(<<2020, 1, 5, 0, 0, 0>>)

\* C23: for every remote name, science or ancillary, the local path at which
\* Search() looks for the file (remote2localnames) is the path to which
\* Download() writes it (name2path, or ancillaryname2path for the ancillary
\* files), so that a file once downloaded is found there by the next Search()
\* and is not asked for again.
C23_SearchLooksWhereDownloadWrites ==
    (pc = "idle" /\ call[1] = "remote2localnames")
    => ret = List(<<IF Contains(call[2], "/ancillary/")
                        THEN ancillaryname2path(self, Basename(call[2]))
                        ELSE name2path(self, Basename(call[2]))>>)

\* C23, the case reached: the local name of an ancillary file has been asked
\* of a selector whose data_root has upper-case letters.
C23_Reached ==
    /\ pc = "idle" /\ call[1] = "remote2localnames"
    /\ Contains(call[2], "/ancillary/")
    /\ self.data_root = Str("/Data/MMS")

\* The site arguments the site setter takes.
C24_ValidSites == {v \in CtorSites : site_setter(v) # ValueError}

\* C24: after construction the site of the selector is determined by the
\* level argument alone: for every valid site argument the selector has the
\* public site when level is None, 'l2' or 'l3' and the restricted site
\* otherwise; an invalid site argument raises.
C24_SiteFollowsLevelArgument ==
    (call[1] = "__init__")
    => IF call[2] \in C24_ValidSites
           THEN /\ exc = NoExc
                /\ self.site = IF call[3] \in {None, Str("l2"), Str("l3")}
                                   THEN "public" ELSE "sitl"
           ELSE exc = ValueError

\* C24 amended: for every valid site argument the selector has the public
\* site when files is given or level is None, 'l2' or 'l3', and the
\* restricted site otherwise; an invalid site argument raises.
C24_SiteFollowsLevelAndFiles ==
    (call[1] = "__init__")
    => IF call[2] \in C24_ValidSites
           THEN /\ exc = NoExc
                /\ self.site = IF call[4] # None \/ call[3] \in {None, Str("l2"), Str("l3")}
                                   THEN "public" ELSE "sitl"
           ELSE exc = ValueError

\* C24, the case reached: a selector constructed with the restricted site and
\* no level has the public site, and one constructed with the public site
\* and a restricted level, without files, has the restricted site.
C24_Reached ==
    /\ call[1] = "__init__" /\ call[4] = None /\ exc = NoExc
    /\ \/ call[2] = Str("private") /\ call[3] = None /\ self.site = "public"
       \/ call[2] = Str("public") /\ call[3] = Str("l1a") /\ self.site = "sitl"

====
